---- MODULE Spec2Model ----
(***************************************************************************)
(* A model of the MCP tool-orchestration host of nativeMcpClientServer.    *)
(* Two hosts exist in the repository and both are modelled:                *)
(*   hostKind = "root" : src/mcp-host.py      (deterministic selection,    *)
(*                        event-stream invocation, one shared history)     *)
(*   hostKind = "host" : src/host/mcp-host.py (delegated selection,        *)
(*                        plain GET invocation, per-connection history)    *)
(* Text is modelled by TLA+ strings, on which TLC evaluates Len, \o and    *)
(* SubSeq; a dictionary is a record in which an absent key holds Missing.  *)
(***************************************************************************)
EXTENDS Integers, Sequences, FiniteSets, TLC

VARIABLES
    hostKind,          \* which of the two host programs runs
    \* ---- MCPHost.__init__ / discover_tools
    tool_servers,      \* the configured providers, in configuration order
    server_idx,        \* position of the `for server in ...` loop
    tools,             \* the list discover_tools is building
    responses,         \* history: what each provider answered to GET /tools
    ctor,              \* "discovering" | "done" | "raised"
    available_tools,   \* self.available_tools: the registry
    \* ---- MCPHost.handle_client, one task per connection
    use_gemini,        \* USE_GEMINI and GEMINI_API_KEY (src/mcp-host.py)
    clients,           \* self.clients
    messages_history,  \* self.messages_history, one list for the whole host
    message_history,   \* the local message_history of each handler (src/host)
    conn,              \* transport of each connection: "new" | "open" | "closed"
    inbox,             \* frames received on the connection, not yet iterated
    sent,              \* frames the host has sent to each peer
    pc,                \* where each handler is: "none" | "await" | "tools" | "done"
    turn,              \* the locals of the turn a handler is processing
    inflight,          \* tool requests issued and not yet completed
    nframes,           \* history: how many frames each peer has sent
    llm_request,       \* history: the messages of each session's last completion request
    handled,           \* history: the frame each handler has taken last, and the
                       \* tool and outcome of the invocation made for it
    \* ---- MCPHost.check_and_use_tools, one call
    sel_message,       \* the user message it is called with
    sel_outcome,       \* what the completion backend does with the selection prompt
    sel_pc,            \* "idle" | "start" | "done"
    requested,         \* the tool request it has issued, or NoRequest
    \* ---- the event stream of one tool request (src/mcp-host.py)
    stream,            \* the lines response.aiter_lines() will yield
    line_idx,          \* the next line to yield
    products_data,     \* the local products_data
    stream_pc,         \* "idle" | "reading" | "closed" | "exhausted" | "raised" |
                       \* "returned"
    response_text,     \* what check_and_use_tools has returned
    chunks,            \* the pieces of text the response body arrives in
    chunk_idx,         \* the next piece to arrive
    buffer,            \* aiter_lines: text received whose line is not complete yet
    \* ---- a provider answering POST /run: run_tool and sse_generator
    run_server,        \* which provider, and for analytics which ANALYTICS_API_URL
    run_name,          \* data.get("name")
    run_period,        \* parameters.get("period"), Missing when the key is absent
    run_result,        \* what products() / analytics() returned
    run_pc,            \* "idle" | "start" | "called" | "data" | "done"
    emitted,           \* the pieces of text the generator has yielded
    \* ---- src/launcher.py
    wanted,            \* the components asked for: start_server, start_host, start_client
    scripts,           \* the components whose script file exists
    launch_pc,         \* where the launcher is
    processes,         \* the list `processes`: what start_process has appended
    children,          \* each component's process: "none" | "running" | "exited" |
                       \* "terminated" (terminate() was called on it)
    started            \* history: the components Popen has started, in that order

discVars == <<tool_servers, server_idx, tools, responses, ctor>>
sessVars == <<use_gemini, clients, messages_history, message_history, conn, inbox, sent,
              pc, turn, inflight, nframes, llm_request, handled>>
selVars == <<sel_message, sel_outcome, sel_pc, requested>>
chunkVars == <<chunks, chunk_idx, buffer>>
runVars == <<run_server, run_name, run_period, run_result, run_pc, emitted>>
launchVars == <<wanted, scripts, launch_pc, processes, children, started>>
streamVars == <<stream, line_idx, products_data, stream_pc, response_text, chunkVars,
                runVars, launchVars>>
vars == <<hostKind, discVars, available_tools, sessVars, selVars, streamVars>>

HostKinds == {"root", "host"}

(***************************************************************************)
(* Text helpers: str.lower, str.strip, `in`, str.startswith.               *)
(***************************************************************************)
Missing == "<missing>"

\* A JSON value that is not text (a number, a list) where text is expected.
NotText == "<not text>"

Upper == <<"A","B","C","D","E","F","G","H","I","J","K","L","M",
           "N","O","P","Q","R","S","T","U","V","W","X","Y","Z">>
LowerOf == <<"a","b","c","d","e","f","g","h","i","j","k","l","m",
             "n","o","p","q","r","s","t","u","v","w","x","y","z">>

ToLower == [c \in { Upper[i] : i \in 1..Len(Upper) } |->
               LowerOf[CHOOSE i \in 1..Len(Upper) : Upper[i] = c]]

LowerChar(c) == IF c \in DOMAIN ToLower THEN ToLower[c] ELSE c

RECURSIVE LowerFrom(_, _)
LowerFrom(s, i) ==
    IF i > Len(s) THEN ""
    ELSE LowerChar(SubSeq(s, i, i)) \o LowerFrom(s, i + 1)

Lower(s) == LowerFrom(s, 1)

IsSpace(c) == c \in {" ", "\n", "\t", "\r"}

RECURSIVE LStrip(_)
LStrip(s) ==
    IF Len(s) = 0 THEN ""
    ELSE IF IsSpace(SubSeq(s, 1, 1)) THEN LStrip(SubSeq(s, 2, Len(s)))
    ELSE s

RECURSIVE RStrip(_)
RStrip(s) ==
    IF Len(s) = 0 THEN ""
    ELSE IF IsSpace(SubSeq(s, Len(s), Len(s))) THEN RStrip(SubSeq(s, 1, Len(s) - 1))
    ELSE s

\* A faulty Strip: the text is left as it is.
StripNothing(s) == CHOOSE r \in { t : t \in {s} } : TRUE

\* str.strip. (The text is bound as an element of a set so that it is computed
\* once.)
Strip(s) == CHOOSE r \in { RStrip(LStrip(t)) : t \in {s} } : TRUE

\* Python `sub in s`
Contains(sub, s) ==
    \E p \in {sub}, t \in {s} :
        IF Len(p) = 0 THEN TRUE
        ELSE \E i \in 1..(Len(t) - Len(p) + 1) : SubSeq(t, i, i + Len(p) - 1) = p

StartsWith(s, prefix) ==
    /\ Len(s) >= Len(prefix)
    /\ (Len(prefix) = 0 \/ SubSeq(s, 1, Len(prefix)) = prefix)

NoTurn == [user_message |-> Missing, seq |-> 0]

\* The handler has not taken a frame yet.
NoFrame == [seq |-> 0, json |-> "", type |-> "", tool |-> "", outcome |-> "",
            completion |-> ""]

NoRequest == [sess |-> "", seq |-> 0, name |-> "", url |-> ""]

\* Python's None as the value of products_data.
JNone == [t |-> "none", n |-> 0]

\* check_and_use_tools is not being followed on its own.
NoSelection ==
    /\ sel_message = ""
    /\ sel_outcome = [kind |-> "ok", text |-> ""]
    /\ sel_pc = "idle"
    /\ requested = NoRequest

\* Python's None as the return value of check_and_use_tools.
NoneResponse == "<None>"

\* The response body is not followed piece by piece.
NoChunks ==
    /\ chunks = <<>>
    /\ chunk_idx = 1
    /\ buffer = ""

\* No provider is followed while it answers a request.
NoRun ==
    /\ run_server = ""
    /\ run_name = ""
    /\ run_period = ""
    /\ run_result = JNone
    /\ run_pc = "idle"
    /\ emitted = <<>>

Components == <<"server", "host", "client">>

\* No launcher is followed.
NoLaunch ==
    /\ wanted = {}
    /\ scripts = {}
    /\ launch_pc = "idle"
    /\ processes = <<>>
    /\ children = [c \in {"server", "host", "client"} |-> "none"]
    /\ started = <<>>

\* No event stream is being followed on its own.
NoStream ==
    /\ stream = <<>>
    /\ line_idx = 1
    /\ products_data = JNone
    /\ stream_pc = "idle"
    /\ response_text = NoneResponse
    /\ NoChunks
    /\ NoRun
    /\ NoLaunch

(***************************************************************************)
(* Tool discovery.                                                         *)
(***************************************************************************)
\* Bound: how many providers a configuration lists.
MaxProviders == 2

\* Provider configurations (entries of config.yaml: tool_servers).
ServerConfigs ==
    { [name |-> "Eagle Feed",     url |-> "http://localhost:5002", path |-> "/feeds"],
      [name |-> "product-server", url |-> "http://localhost:5001", path |-> "/products"],
      [name |-> "analytics-server", url |-> "http://localhost:5080", path |-> "/analytics"],
      [name |-> "Product Analytics", url |-> "http://localhost:5081", path |-> Missing],
      [name |-> "weather",        url |-> "http://localhost:5003", path |-> Missing],
      [name |-> Missing,          url |-> "http://localhost:5004", path |-> Missing],
      [name |-> "weather",        url |-> Missing,                 path |-> Missing] }

\* Descriptors as a provider's GET /tools returns them: no "url" key.
Descriptor(n, d) ==
    [t |-> "dict", name |-> n, description |-> d, parameters |-> "{}", url |-> Missing,
     v |-> Missing]

\* A key of a dict-shaped body: iterating a dict gives its keys, which are strings.
KeyItem(k) ==
    [t |-> "str", name |-> Missing, description |-> Missing, parameters |-> Missing,
     url |-> Missing, v |-> k]

ProductsTool ==
    Descriptor("get_products", "Get the list of available products from the product API.")
ProductsToolOther == Descriptor("get_products", "Another product listing")
WeatherTool == Descriptor("get_weather", "Get the weather")
NamelessTool == Descriptor(Missing, "A descriptor without a name")

\* What a provider can answer to GET <url>/tools.
\*   net    : "ok" | "error" (requests.get raises)
\*   status : the HTTP status
\*   shape  : what response.json() gives: "invalid" (it raises), "list", "dict"
\*            (items are then its keys), "number"
DiscoveryResponses ==
    { [net |-> "ok",    status |-> 200, shape |-> "list",    items |-> <<ProductsTool>>],
      [net |-> "ok",    status |-> 200, shape |-> "list",    items |-> <<ProductsToolOther>>],
      [net |-> "ok",    status |-> 200, shape |-> "list",    items |-> <<WeatherTool>>],
      [net |-> "ok",    status |-> 200, shape |-> "list",    items |-> <<NamelessTool>>],
      [net |-> "ok",    status |-> 200, shape |-> "dict",    items |-> <<KeyItem("tools")>>],
      [net |-> "ok",    status |-> 200, shape |-> "number",  items |-> <<>>],
      [net |-> "ok",    status |-> 200, shape |-> "invalid", items |-> <<>>],
      [net |-> "ok",    status |-> 500, shape |-> "invalid", items |-> <<>>],
      [net |-> "error", status |-> 0,   shape |-> "invalid", items |-> <<>>] }

NotQueried == [net |-> "none", status |-> 0, shape |-> "invalid", items |-> <<>>]

\* server.get(key, default)
Get(server, key, default) == IF server[key] = Missing THEN default ELSE server[key]

\* One element of the list `tools`; src (history) is the provider it came from.
Entry(item, i) ==
    [t |-> item.t, name |-> item.name, description |-> item.description,
     parameters |-> item.parameters, url |-> item.url, v |-> item.v, src |-> i]

RECURSIVE Entries(_, _)
Entries(items, i) ==
    IF items = <<>> THEN <<>>
    ELSE <<Entry(Head(items), i)>> \o Entries(Tail(items), i)

\* tools.extend(response.json()) inside try/except: a list extends by its items,
\* a dict by its keys, anything else raises TypeError, which the caller catches.
Extend(list, resp, i) ==
    IF resp.shape \in {"list", "dict"} THEN list \o Entries(resp.items, i) ELSE list

\* requests.get(f"{server_url}/tools") and what both hosts do with the answer.
DynamicQuery(list, resp, i) ==
    IF resp.net = "ok" /\ resp.status = 200 THEN Extend(list, resp, i) ELSE list

StaticTool(n, d, server, i) ==
    [t |-> "dict", name |-> n, description |-> d, parameters |-> "{}",
     url |-> server.url \o Get(server, "path", ""), v |-> Missing, src |-> i]

\* A faulty StaticName: "analytics" is tested before "product".
StaticNameAnalyticsFirst(server) ==
    LET n == Lower(Get(server, "name", "unknown")) IN
    IF Contains("eagle", n) THEN "get_eagle_feeds"
    ELSE IF Contains("analytics", n) THEN "get_analytics"
    ELSE IF Contains("product", n) THEN "get_products"
    ELSE ""

\* The static mapping of src/host/mcp-host.py; "" when the provider is dynamic.
StaticName(server) ==
    LET n == Lower(Get(server, "name", "unknown")) IN
    IF Contains("eagle", n) THEN "get_eagle_feeds"
    ELSE IF Contains("product", n) THEN "get_products"
    ELSE IF Contains("analytics", n) THEN "get_analytics"
    ELSE ""

StaticDescription(n) ==
    IF n = "get_eagle_feeds" THEN "Get information about eagle live feeds and webcams"
    ELSE IF n = "get_products" THEN "Get information about available products"
    ELSE "Get analytics data and metrics"

\* Whether the loop body queries the provider over the network.
Queries(kind, server) ==
    /\ server.url # Missing
    /\ (kind = "root" \/ StaticName(server) = "")

\* One iteration of `for server in tool_servers` in discover_tools:
\* server["url"] is read before the try block, so a missing key raises.
DiscoverOne(kind, server, resp, list, i) ==
    IF server.url = Missing THEN [tools |-> list, raised |-> TRUE]
    ELSE IF kind = "host" /\ StaticName(server) # ""
    THEN [tools |-> Append(list, StaticTool(StaticName(server),
                                  StaticDescription(StaticName(server)), server, i)),
          raised |-> FALSE]
    ELSE [tools |-> DynamicQuery(list, resp, i), raised |-> FALSE]

\* MCPHost.__init__ of src/host/mcp-host.py logs tool['name'] and
\* tool['description'] of every discovered tool, outside any try block.
LoggingRaises(list) ==
    \E k \in 1..Len(list) :
        \/ list[k].t = "str"
        \/ list[k].name = Missing
        \/ list[k].description = Missing

Sessions == {"c1", "c2"}

\* No connection has been accepted.
NoSessions ==
    /\ clients = {}
    /\ messages_history = <<>>
    /\ message_history = [c \in Sessions |-> <<>>]
    /\ conn = [c \in Sessions |-> "new"]
    /\ inbox = [c \in Sessions |-> <<>>]
    /\ sent = [c \in Sessions |-> <<>>]
    /\ pc = [c \in Sessions |-> "none"]
    /\ turn = [c \in Sessions |-> NoTurn]
    /\ inflight = {}
    /\ nframes = [c \in Sessions |-> 0]
    /\ llm_request = [c \in Sessions |-> <<>>]
    /\ handled = [c \in Sessions |-> NoFrame]

InitDiscovery ==
    /\ hostKind \in HostKinds
    /\ tool_servers \in UNION { [1..n -> ServerConfigs] : n \in 0..MaxProviders }
    /\ server_idx = 1
    /\ tools = <<>>
    /\ responses = <<>>
    /\ ctor = "discovering"
    /\ available_tools = <<>>
    /\ use_gemini = FALSE
    /\ NoSessions
    /\ NoSelection
    /\ NoStream

\* A provider that accepts the connection and the request and never answers.
Silent == [net |-> "silent", status |-> 0, shape |-> "invalid", items |-> <<>>]

\* One iteration of the loop of discover_tools, the provider answering in one of
\* the ways resps. requests.get is called without a timeout: on a provider that
\* never answers the call does not return (ctor = "waiting", no further step).
DiscoverServerFrom(resps) ==
    /\ ctor = "discovering"
    /\ server_idx <= Len(tool_servers)
    /\ \E resp \in (IF Queries(hostKind, tool_servers[server_idx])
                    THEN resps ELSE {NotQueried}) :
         LET r == DiscoverOne(hostKind, tool_servers[server_idx], resp, tools, server_idx) IN
         /\ tools' = r.tools
         /\ responses' = Append(responses, resp)
         /\ ctor' = IF resp.net = "silent" THEN "waiting"
                    ELSE IF r.raised THEN "raised" ELSE "discovering"
         /\ server_idx' = IF resp.net = "silent" THEN server_idx ELSE server_idx + 1
    /\ UNCHANGED <<selVars, streamVars, hostKind, tool_servers, available_tools, sessVars>>

DiscoverServer == DiscoverServerFrom(DiscoveryResponses)

\* The end of discover_tools and the rest of __init__.
InitFinish ==
    /\ ctor = "discovering"
    /\ server_idx > Len(tool_servers)
    /\ ctor' = IF hostKind = "host" /\ LoggingRaises(tools) THEN "raised" ELSE "done"
    /\ available_tools' = tools
    /\ UNCHANGED <<selVars, streamVars, hostKind, tool_servers, server_idx, tools, responses, sessVars>>

NextDiscovery == DiscoverServer \/ InitFinish

SpecDiscovery == InitDiscovery /\ [][NextDiscovery]_vars

\* What a provider can do at startup: answer in one of the ways above, or not at all.
StartupResponses == DiscoveryResponses \cup {Silent}

\* Start-up with providers that may never answer. A call that has returned is
\* followed by the next statement, hence the fairness condition.
NextStartup == DiscoverServerFrom(StartupResponses) \/ InitFinish

SpecStartup == InitDiscovery /\ [][NextStartup]_vars /\ WF_vars(NextStartup)

\* C1: discovery and host construction never raise, a failing provider contributes
\* no descriptor, and every healthy provider's descriptors are in the registry.
Healthy(i) ==
    /\ tool_servers[i].url # Missing
    /\ \/ responses[i] = NotQueried
       \/ /\ responses[i].net = "ok"
          /\ responses[i].status = 200
          /\ responses[i].shape = "list"
          /\ \A k \in 1..Len(responses[i].items) :
                /\ responses[i].items[k].t = "dict"
                /\ responses[i].items[k].name # Missing

FromProvider(i) == { k \in 1..Len(available_tools) : available_tools[k].src = i }

C1_DiscoveryIsolatesFailures ==
    /\ ctor # "raised"
    /\ ctor = "done" =>
          \A i \in 1..Len(tool_servers) :
              IF Healthy(i)
              THEN /\ responses[i] = NotQueried => FromProvider(i) # {}
                   /\ \A k \in 1..Len(responses[i].items) :
                         \E j \in FromProvider(i) :
                             available_tools[j] = Entry(responses[i].items[k], i)
              ELSE FromProvider(i) = {}

\* C2: after discovery no two descriptors of the registry have the same name
\* (of two providers returning the same name only the earliest one's is kept).
C2_RegistryNamesUnique ==
    ctor = "done" =>
        \A j, k \in 1..Len(available_tools) :
            (/\ available_tools[j].t = "dict"
             /\ available_tools[k].t = "dict"
             /\ available_tools[j].name # Missing
             /\ available_tools[j].name = available_tools[k].name) => j = k

\* C29: every descriptor of the registry of src/host/mcp-host.py is an object
\* with a name, a description, a parameter schema and an endpoint to invoke.
C29_DescriptorsAreComplete ==
    (hostKind = "host" /\ ctor = "done") =>
        \A k \in 1..Len(available_tools) :
            /\ available_tools[k].t = "dict"
            /\ available_tools[k].name # Missing
            /\ available_tools[k].description # Missing
            /\ available_tools[k].parameters # Missing
            /\ available_tools[k].url # Missing

\* The words the static mapping looks for, in the order of precedence, and the
\* tool each stands for.
Keywords == <<"eagle", "product", "analytics">>
ToolOfKeyword == <<"get_eagle_feeds", "get_products", "get_analytics">>

\* The first keyword that the provider's name contains, 0 when it contains none.
KeywordOf(server) ==
    LET n == Lower(IF server.name = Missing THEN "unknown" ELSE server.name)
        hits == { j \in 1..Len(Keywords) : Contains(Keywords[j], n) }
    IN IF hits = {} THEN 0 ELSE CHOOSE j \in hits : \A h \in hits : j <= h

\* The positions in the list being built of the descriptors provider i gave.
GivenBy(i) == { k \in 1..Len(tools) : tools[k].src = i }

\* C35: in src/host/mcp-host.py every provider the loop has dealt with went
\* through one path. A provider whose name contains a keyword gave exactly one
\* descriptor, that of the first keyword in the order eagle, product, analytics,
\* with its url followed by its path as endpoint, and was not queried. Any
\* other provider was queried, gave descriptors only on status 200, and on a
\* list answered with status 200 gave the items of that list, in order.
C35_OneDiscoveryPathPerProvider ==
    hostKind = "host" =>
        \A i \in 1..Len(responses) :
            tool_servers[i].url # Missing =>
                LET server == tool_servers[i]
                    j == KeywordOf(server)
                    resp == responses[i]
                IN
                IF j > 0
                THEN /\ resp = NotQueried
                     /\ Cardinality(GivenBy(i)) = 1
                     /\ \A k \in GivenBy(i) :
                           /\ tools[k].name = ToolOfKeyword[j]
                           /\ tools[k].url =
                                 server.url \o (IF server.path = Missing THEN "" ELSE server.path)
                ELSE /\ resp # NotQueried
                     /\ GivenBy(i) # {} => (resp.net = "ok" /\ resp.status = 200)
                     /\ (resp.net = "ok" /\ resp.status = 200 /\ resp.shape = "list") =>
                           SelectSeq(tools, LAMBDA t : t.src = i) =
                              [m \in 1..Len(resp.items) |-> Entry(resp.items[m], i)]

\* C35's case: a provider whose name contains both "product" and "analytics",
\* then a provider with no keyword in its name that answered with a descriptor.
C35_Witness ==
    /\ hostKind = "host"
    /\ ctor = "done"
    /\ Len(tool_servers) = 2
    /\ tool_servers[1].name = "Product Analytics"
    /\ tool_servers[2].name = "weather"
    /\ responses[1] = NotQueried
    /\ responses[2].status = 200
    /\ Len(available_tools) = 2
    /\ available_tools[1].name = "get_products"
    /\ available_tools[2].name = "get_weather"

\* C30: discovery ends, whatever the providers do: the constructor returns or
\* raises, and does not wait forever for a provider.
C30_DiscoveryTerminates == <>(ctor \in {"done", "raised"})

(***************************************************************************)
(* The completion backend and tool selection.                              *)
(***************************************************************************)
\* query_gemini never raises: it returns the generated text, or an "Error: ..."
\* text on a non-200 status or on any exception (the exception's own text).
query_gemini(o) ==
    IF o.kind = "ok" THEN o.text
    ELSE IF o.kind = "status"
    THEN "Error: Unable to get response from Gemini (Status " \o o.text \o ")"
    ELSE "Error: " \o o.text

Ok(text) == [kind |-> "ok", text |-> text]
Status(code) == [kind |-> "status", text |-> code]
Raised(text) == [kind |-> "exception", text |-> text]

\* A faulty FirstMatch: when no name is in the decision, the first tool is taken.
RECURSIVE FirstMatchOrGuess(_, _, _)
FirstMatchOrGuess(list, tool_decision, k) ==
    IF k > Len(list) THEN (IF Len(list) > 0 THEN 1 ELSE 0)
    ELSE IF list[k].t = "str" \/ list[k].name = Missing THEN -1
    ELSE IF Contains(Lower(list[k].name), tool_decision) THEN k
    ELSE FirstMatchOrGuess(list, tool_decision, k + 1)

\* The delegated selector's loop `for tool in self.available_tools`: the index of
\* the first tool whose lowercased name is in the decision, 0 when there is none,
\* -1 when tool["name"] raises.
RECURSIVE FirstMatch(_, _, _)
FirstMatch(list, tool_decision, k) ==
    IF k > Len(list) THEN 0
    ELSE IF list[k].t = "str" \/ list[k].name = Missing THEN -1
    ELSE IF Contains(Lower(list[k].name), tool_decision) THEN k
    ELSE FirstMatch(list, tool_decision, k + 1)

\* Building tool_descriptions reads tool['name'] and tool['description'] of every tool.
PromptRaises(list) ==
    \E k \in 1..Len(list) :
        list[k].t = "str" \/ list[k].name = Missing \/ list[k].description = Missing

\* check_and_use_tools of src/host/mcp-host.py up to the tool request: the index in
\* available_tools of the tool to request, or 0 for `return None`.
DelegatedSelect(list, answer) ==
    LET tool_decision == Lower(Strip(answer)) IN
    IF PromptRaises(list) THEN 0
    ELSE IF tool_decision = "none" \/ tool_decision = "" THEN 0
    ELSE LET k == FirstMatch(list, tool_decision, 1) IN
         IF k <= 0 THEN 0
         ELSE IF list[k].url = Missing THEN 0
         ELSE k

TriggerPhrases == {"get products", "fetch products", "show products"}

\* A faulty Triggered: the message is not lowercased.
TriggeredCaseSensitive(text) ==
    \E phrase \in TriggerPhrases : Contains(phrase, Strip(text))

\* The `if "get products" in message_lower or ...` test of src/mcp-host.py.
Triggered(text) ==
    \E message_lower \in {Strip(Lower(text))} :
        \E phrase \in TriggerPhrases : Contains(phrase, message_lower)

\* `for tool in self.available_tools: if tool.get("name") == name`: the index of the
\* first such tool, 0 when there is none, -1 when tool.get raises (a str element).
RECURSIVE FindByName(_, _, _)
FindByName(list, name, k) ==
    IF k > Len(list) THEN 0
    ELSE IF list[k].t = "str" THEN -1
    ELSE IF list[k].name = name THEN k
    ELSE FindByName(list, name, k + 1)

\* check_and_use_tools of src/mcp-host.py up to the tool request.
DeterministicSelect(list, text) ==
    IF ~Triggered(text) THEN 0
    ELSE LET k == FindByName(list, "get_products", 1) IN IF k <= 0 THEN 0 ELSE k

(***************************************************************************)
(* Connections and turns.                                                  *)
(***************************************************************************)
\* Bound: how many frames the peers send in a run, all connections together.
MaxFrames == 2

UserContents == {"show products", "hi"}

\* {"type": "user_message", "content": u}, as the client sends it.
UserFrames ==
    { [json |-> "object", type |-> "user_message", content |-> u, message |-> Missing] :
        u \in UserContents }

Frames ==
    UserFrames
    \cup { [json |-> "object", type |-> "clear_history", content |-> Missing,
            message |-> Missing],
           [json |-> "invalid", type |-> Missing, content |-> Missing, message |-> Missing] }

\* A frame in the inbox; seq (history) is its arrival number on the connection.
Arrived(f, n) ==
    [json |-> f.json, type |-> f.type, content |-> f.content, message |-> f.message,
     seq |-> n]

\* An entry of a history list; src and seq (history) name the session and the
\* inbound frame of the turn that appended it.
Msg(role, content, c, n) == [role |-> role, content |-> content, src |-> c, seq |-> n]

\* Frames to the peer; a key the frame does not have holds Missing.
LlmResponse(um, text, n) ==
    [type |-> "llm_response", user_message |-> um, response |-> text,
     content |-> Missing, error |-> Missing, seq |-> n]
ErrorFrame(text, n) ==
    [type |-> Missing, user_message |-> Missing, response |-> Missing,
     content |-> Missing, error |-> text, seq |-> n]
SystemMessage(text) ==
    [type |-> "system_message", user_message |-> Missing, response |-> Missing,
     content |-> text, error |-> Missing, seq |-> 0]
HistoryCleared(n) ==
    [type |-> "history_cleared", user_message |-> Missing, response |-> Missing,
     content |-> Missing, error |-> Missing, seq |-> n]

\* What the backends answer in a run with several sessions.
SelectionOutcomes == {Ok("none"), Ok("get_products"), Status("500")}
CompletionOutcomes == {Ok("Hello!"), Raised("Connection refused")}
OllamaOutcomes == {Ok("Hello!"), Status("500"), Raised("Connection refused")}

\* src/mcp-host.py: how the tool request can end, and what check_and_use_tools
\* then returns: the formatted products when the stream gave a result, None when
\* the stream gave an error event or no result, when the status was not 200, and
\* when connecting or reading failed or timed out (the except clause of line 223).
RootToolOutcomes ==
    {"result", "error_event", "no_result", "status", "request_error", "timeout"}
RootToolResponse(out) ==
    IF out = "result" THEN "Here are the products I found:\n\n1. Unknown\n\n"
    ELSE NoneResponse

\* src/host/mcp-host.py: what check_and_use_tools returns after client.get.
\* (The legacy reply is written without its code fence.)
\* httpx.TimeoutException is a subclass of httpx.RequestError, whose except
\* clause comes first.
HostToolOutcomes == {"formatted", "status", "request_error", "timeout", "exception"}
HostToolResponse(tool_name, out) ==
    IF out = "formatted" THEN "Here are some products you might be interested in:\n\n"
    ELSE IF out = "legacy" THEN "Here's the information I found:\n\n{}\n"
    ELSE IF out = "status"
    THEN "I tried to use the " \o tool_name
         \o " tool, but encountered an error (HTTP 500). Please try again later."
    ELSE IF out \in {"request_error", "timeout"}
    THEN "I tried to use the " \o tool_name
         \o " tool, but encountered a connection error. Please check if the service is available and try again."
    ELSE "I encountered an error while using the " \o tool_name
         \o " tool: Expecting value: line 1 column 1 (char 0). Please try again later."

\* A frame the handler has taken, the tool selected for it ("" when none) and
\* the outcome of the invocation ("" when none was made).
Handled(f, tool) ==
    [seq |-> f.seq, json |-> f.json, type |-> f.type, tool |-> tool,
     outcome |-> IF tool = "" THEN "" ELSE "pending", completion |-> ""]

\* The invocation made for the frame has ended with outcome out.
Finished(h, out) == [h EXCEPT !.outcome = out]

\* The completion request made for the frame has ended as o says.
Completed(h, o) == [h EXCEPT !.completion = o.kind]

\* list[-k:]
LastK(list, k) == SubSeq(list, IF Len(list) > k THEN Len(list) - k + 1 ELSE 1, Len(list))
\* list[:-1]
ButLast(list) == SubSeq(list, 1, Len(list) - 1)

\* A faulty Dequeue: the newest frame is handed over first.
DequeueNewest(q) == [frame |-> q[Len(q)], rest |-> SubSeq(q, 1, Len(q) - 1)]

\* `async for message in websocket` hands over the oldest frame not yet iterated.
Dequeue(q) == [frame |-> Head(q), rest |-> Tail(q)]

\* A faulty CanReceive: frames are taken while the tool request is awaited.
CanReceiveDuringTool(c) == pc[c] \in {"await", "tools"} /\ inbox[c] # <<>>

\* The handler is suspended in `async for` and a frame is there for it.
CanReceive(c) == pc[c] = "await" /\ inbox[c] # <<>>

Request(c, n, k) == [sess |-> c, seq |-> n, name |-> available_tools[k].name,
                     url |-> IF hostKind = "root"
                             THEN tool_servers[1].url \o "/run"
                             ELSE available_tools[k].url]

\* Deployments a run with sessions starts from: a configuration and what its
\* providers answered at start-up.
Deployments ==
    { [servers |-> <<[name |-> "product-server", url |-> "http://localhost:5001",
                      path |-> "/products"]>>,
       resps |-> <<[net |-> "ok", status |-> 200, shape |-> "list",
                    items |-> <<ProductsTool>>]>>] }

\* What each provider of a deployment answered: a provider that the static mapping
\* covers is not queried.
Answered(kind, servers, resps) ==
    [i \in 1..Len(servers) |-> IF Queries(kind, servers[i]) THEN resps[i] ELSE NotQueried]

RECURSIVE DiscoverAll(_, _, _, _, _)
DiscoverAll(kind, servers, resps, i, list) ==
    IF i > Len(servers) THEN list
    ELSE DiscoverAll(kind, servers, resps, i + 1,
                     DiscoverOne(kind, servers[i], resps[i], list, i).tools)

Init ==
    /\ hostKind \in HostKinds
    /\ \E d \in Deployments :
         /\ tool_servers = d.servers
         /\ responses = Answered(hostKind, d.servers, d.resps)
         /\ tools = DiscoverAll(hostKind, d.servers, d.resps, 1, <<>>)
         /\ server_idx = Len(d.servers) + 1
    /\ available_tools = tools
    /\ ctor = "done"
    /\ use_gemini \in (IF hostKind = "root" THEN BOOLEAN ELSE {FALSE})
    /\ NoSessions
    /\ NoSelection
    /\ NoStream

\* Connections are named in the order they are accepted.
FirstNew == IF conn["c1"] = "new" THEN "c1" ELSE "c2"

\* A faulty Accept: discovery is run again for every connection and its
\* descriptors are added to the registry.
AcceptRediscovers(c) ==
    /\ conn[c] = "new"
    /\ c = FirstNew
    /\ conn' = [conn EXCEPT ![c] = "open"]
    /\ pc' = [pc EXCEPT ![c] = "await"]
    /\ IF hostKind = "root"
       THEN clients' = clients \cup {c} /\ UNCHANGED sent
       ELSE /\ sent' = [sent EXCEPT ![c] = Append(@,
                          SystemMessage("Connected to MCP Host. Type a message to begin."))]
            /\ UNCHANGED clients
    /\ available_tools' = available_tools \o tools
    /\ UNCHANGED <<selVars, streamVars, hostKind, discVars, use_gemini, messages_history,
                   message_history, inbox, turn, inflight, nframes, llm_request,
                   handled>>

\* websockets.serve accepts a connection and starts handle_client for it.
Accept(c) ==
    /\ conn[c] = "new"
    /\ c = FirstNew
    /\ conn' = [conn EXCEPT ![c] = "open"]
    /\ pc' = [pc EXCEPT ![c] = "await"]
    /\ IF hostKind = "root"
       THEN clients' = clients \cup {c} /\ UNCHANGED sent
       ELSE /\ sent' = [sent EXCEPT ![c] = Append(@,
                          SystemMessage("Connected to MCP Host. Type a message to begin."))]
            /\ UNCHANGED clients
    /\ UNCHANGED <<selVars, streamVars, hostKind, discVars, available_tools, use_gemini, messages_history,
                   message_history, inbox, turn, inflight, nframes, llm_request,
                   handled>>

RECURSIVE SumOver(_, _)
SumOver(f, S) ==
    IF S = {} THEN 0 ELSE LET x == CHOOSE y \in S : TRUE IN f[x] + SumOver(f, S \ {x})

FramesSent == SumOver(nframes, Sessions)

\* The peer sends one of the frames fs; limit bounds the frames of a run.
ClientSends(c, limit, fs) ==
    /\ conn[c] = "open"
    /\ FramesSent < limit
    /\ \E f \in fs :
         inbox' = [inbox EXCEPT ![c] = Append(@, Arrived(f, nframes[c] + 1))]
    /\ nframes' = [nframes EXCEPT ![c] = @ + 1]
    /\ UNCHANGED <<selVars, streamVars, hostKind, discVars, available_tools, use_gemini, clients,
                   messages_history, message_history, conn, sent, pc, turn, inflight,
                   llm_request, handled>>

\* The peer closes the connection.
Disconnect(c) ==
    /\ conn[c] = "open"
    /\ conn' = [conn EXCEPT ![c] = "closed"]
    /\ UNCHANGED <<selVars, streamVars, hostKind, discVars, available_tools, use_gemini, clients,
                   messages_history, message_history, inbox, sent, pc, turn, inflight,
                   nframes, llm_request, handled>>

\* With several sessions, the peers send user messages and frames that are not JSON.
ClientSend(c) == ClientSends(c, MaxFrames, { f \in Frames : f.type # "clear_history" })

\* `async for` ends on a closed connection; the finally block runs.
HandlerExit(c) ==
    /\ pc[c] = "await"
    /\ conn[c] = "closed"
    /\ pc' = [pc EXCEPT ![c] = "done"]
    /\ clients' = IF hostKind = "root" THEN clients \ {c} ELSE clients
    /\ UNCHANGED <<selVars, streamVars, hostKind, discVars, available_tools, use_gemini, messages_history,
                   message_history, conn, inbox, sent, turn, inflight, nframes,
                   llm_request, handled>>

\* A faulty RootSend: after an error frame the handler leaves the loop.
RootSendEndsOnError(c, frame) ==
    IF conn[c] = "open"
    THEN /\ sent' = [sent EXCEPT ![c] = Append(@, frame)]
         /\ pc' = [pc EXCEPT ![c] = IF frame.error # Missing THEN "done" ELSE "await"]
         /\ clients' = IF frame.error # Missing THEN clients \ {c} ELSE clients
    ELSE /\ pc' = [pc EXCEPT ![c] = "done"]
         /\ clients' = clients \ {c}
         /\ UNCHANGED sent

\* src/mcp-host.py, `await websocket.send(...)` at the end of a turn. On a closed
\* connection it raises; the except clause's own send raises again, which leaves
\* the loop through `except ConnectionClosed` and the finally block.
RootSend(c, frame) ==
    IF conn[c] = "open"
    THEN /\ sent' = [sent EXCEPT ![c] = Append(@, frame)]
         /\ pc' = [pc EXCEPT ![c] = "await"]
         /\ UNCHANGED clients
    ELSE /\ pc' = [pc EXCEPT ![c] = "done"]
         /\ clients' = clients \ {c}
         /\ UNCHANGED sent

\* src/host/mcp-host.py: a send that raises is caught and logged by the turn's
\* `except Exception`, and the loop goes on to the next iteration.
HostSend(c, frame) ==
    /\ sent' = IF conn[c] = "open" THEN [sent EXCEPT ![c] = Append(@, frame)] ELSE sent
    /\ pc' = [pc EXCEPT ![c] = "await"]
    /\ UNCHANGED clients

\* src/mcp-host.py lines 104-136: no tool answered, ask the completion backend.
\* hist is self.messages_history with the user message appended.
RootFallback(c, um, n, hist, h) ==
    IF use_gemini
    THEN \E o \in CompletionOutcomes :
           /\ handled' = [handled EXCEPT ![c] = Completed(h, o)]
           /\ llm_request' = [llm_request EXCEPT
                                 ![c] = <<Msg("user", um, c, n)>> \o ButLast(hist)]
           /\ messages_history' = Append(hist, Msg("assistant", query_gemini(o), c, n))
           /\ RootSend(c, LlmResponse(um, query_gemini(o), n))
    ELSE \E o \in OllamaOutcomes :
           /\ handled' = [handled EXCEPT ![c] = Completed(h, o)]
           /\ llm_request' = [llm_request EXCEPT ![c] = hist]
           /\ IF o.kind = "ok"
              THEN /\ messages_history' = Append(hist, Msg("assistant", o.text, c, n))
                   /\ RootSend(c, LlmResponse(um, o.text, n))
              ELSE /\ messages_history' = hist
                   /\ RootSend(c, ErrorFrame(
                         IF o.kind = "status"
                         THEN "Ollama request failed with status " \o o.text
                         ELSE "Error processing message: " \o o.text, n))

\* src/mcp-host.py, the body of one iteration of the loop, from the frame the
\* iterator hands over up to the next suspension.
RootTurn(c) ==
    /\ hostKind = "root"
    /\ LET f == Dequeue(inbox[c]).frame
           um == IF f.type = "user_message" THEN f.content ELSE f.message
           k == IF f.json = "invalid" \/ um = Missing THEN 0
                ELSE DeterministicSelect(available_tools, um)
           h == Handled(f, IF k > 0 THEN available_tools[k].name ELSE "")
       IN
       /\ inbox' = [inbox EXCEPT ![c] = Dequeue(inbox[c]).rest]
       /\ IF f.json = "invalid" \/ (f.type = "user_message" /\ f.content = Missing)
          THEN /\ handled' = [handled EXCEPT ![c] = h]
               /\ RootSend(c, ErrorFrame("Error processing message: Expecting value", f.seq))
               /\ UNCHANGED <<messages_history, turn, inflight, llm_request>>
          ELSE IF f.type # "user_message" /\ f.message = Missing
          THEN /\ handled' = [handled EXCEPT ![c] = h]
               /\ RootSend(c, ErrorFrame("Unknown message format", f.seq))
               /\ UNCHANGED <<messages_history, turn, inflight, llm_request>>
          ELSE LET hist == Append(messages_history, Msg("user", um, c, f.seq)) IN
               IF um = NotText
               THEN \* line 149: message.lower() raises, outside the try of line 154
                    /\ handled' = [handled EXCEPT ![c] = h]
                    /\ messages_history' = hist
                    /\ RootSend(c, ErrorFrame(
                          "Error processing message: 'int' object has no attribute 'lower'",
                          f.seq))
                    /\ UNCHANGED <<turn, inflight, llm_request>>
               ELSE IF k > 0
               THEN /\ handled' = [handled EXCEPT ![c] = h]
                    /\ messages_history' = hist
                    /\ turn' = [turn EXCEPT ![c] = [user_message |-> um, seq |-> f.seq]]
                    /\ inflight' = inflight \cup {Request(c, f.seq, k)}
                    /\ pc' = [pc EXCEPT ![c] = "tools"]
                    /\ UNCHANGED <<sent, clients, llm_request>>
               ELSE /\ RootFallback(c, um, f.seq, hist, h)
                    /\ UNCHANGED <<turn, inflight>>
    /\ UNCHANGED <<selVars, streamVars, hostKind, discVars, available_tools, use_gemini, message_history,
                   conn, nframes>>

\* src/mcp-host.py, one iteration of the loop up to its first suspension.
RootReceive(c) == CanReceive(c) /\ RootTurn(c)

\* src/mcp-host.py: the tool request has ended in one of the ways outs.
RootToolEnds(c, outs) ==
    /\ hostKind = "root"
    /\ pc[c] = "tools"
    /\ inflight' = { r \in inflight : r.sess # c }
    /\ \E out \in outs :
         LET tool_response == RootToolResponse(out)
             um == turn[c].user_message
             n == turn[c].seq
         IN
         /\ IF tool_response # NoneResponse
            THEN /\ handled' = [handled EXCEPT ![c] = Finished(@, out)]
                 /\ messages_history' =
                       Append(messages_history, Msg("assistant", tool_response, c, n))
                 /\ RootSend(c, LlmResponse(um, tool_response, n))
                 /\ UNCHANGED llm_request
            ELSE RootFallback(c, um, n, messages_history, Finished(handled[c], out))
    /\ turn' = [turn EXCEPT ![c] = NoTurn]
    /\ UNCHANGED <<selVars, streamVars, hostKind, discVars, available_tools, use_gemini, message_history,
                   conn, inbox, nframes>>

\* With several sessions, the request succeeds or times out.
RootToolDone(c) == RootToolEnds(c, {"result", "timeout"})

\* A faulty HostFallback: a failed completion request leaves no history entry.
HostFallbackForgetsFailure(c, content, n, hist, h) ==
    \E o \in CompletionOutcomes :
        /\ handled' = [handled EXCEPT ![c] = Completed(h, o)]
        /\ llm_request' = [llm_request EXCEPT
                              ![c] = LastK(hist, 5) \o ButLast(messages_history)]
        /\ message_history' = [message_history EXCEPT
                                  ![c] = IF o.kind = "ok"
                                         THEN Append(hist, Msg("assistant", query_gemini(o), c, n))
                                         ELSE hist]
        /\ HostSend(c, LlmResponse(content, query_gemini(o), n))

\* src/host/mcp-host.py lines 176-199: no tool answered, ask the completion backend
\* with the last 5 messages. hist is message_history with the user message appended.
HostFallback(c, content, n, hist, h) ==
    \E o \in CompletionOutcomes :
        /\ handled' = [handled EXCEPT ![c] = Completed(h, o)]
        /\ llm_request' = [llm_request EXCEPT
                              ![c] = LastK(hist, 5) \o ButLast(messages_history)]
        /\ message_history' = [message_history EXCEPT
                                  ![c] = Append(hist, Msg("assistant", query_gemini(o), c, n))]
        /\ HostSend(c, LlmResponse(content, query_gemini(o), n))

\* src/host/mcp-host.py, the body of one iteration of the loop, from the frame
\* the iterator hands over up to the next suspension.
HostTurn(c) ==
    /\ hostKind = "host"
    /\ LET f == Dequeue(inbox[c]).frame
           content == Strip(Get(f, "content", ""))
       IN
       /\ inbox' = [inbox EXCEPT ![c] = Dequeue(inbox[c]).rest]
       /\ IF f.json = "invalid" \/ (f.type = "user_message" /\ content = "")
             \/ f.type \notin {"user_message", "clear_history"}
             \/ (f.type = "user_message" /\ f.content = NotText)  \* .strip() raises
          THEN /\ handled' = [handled EXCEPT ![c] = Handled(f, "")]
               /\ UNCHANGED <<message_history, sent, pc, clients, turn, inflight,
                              llm_request>>
          ELSE IF f.type = "clear_history"
          THEN /\ message_history' = [message_history EXCEPT ![c] = <<>>]
               /\ handled' = [handled EXCEPT ![c] = Handled(f, "")]
               /\ HostSend(c, HistoryCleared(f.seq))
               /\ UNCHANGED <<turn, inflight, llm_request>>
          ELSE LET hist == Append(message_history[c], Msg("user", content, c, f.seq)) IN
               \E sel \in SelectionOutcomes :
                   LET k == DelegatedSelect(available_tools, query_gemini(sel))
                       h == Handled(f, IF k > 0 THEN available_tools[k].name ELSE "")
                   IN
                   IF k > 0
                   THEN /\ handled' = [handled EXCEPT ![c] = h]
                        /\ message_history' = [message_history EXCEPT ![c] = hist]
                        /\ turn' = [turn EXCEPT
                                       ![c] = [user_message |-> content, seq |-> f.seq]]
                        /\ inflight' = inflight \cup {Request(c, f.seq, k)}
                        /\ pc' = [pc EXCEPT ![c] = "tools"]
                        /\ UNCHANGED <<sent, clients, llm_request>>
                   ELSE /\ HostFallback(c, content, f.seq, hist, h)
                        /\ UNCHANGED <<turn, inflight>>
    /\ UNCHANGED <<selVars, streamVars, hostKind, discVars, available_tools, use_gemini, messages_history,
                   conn, nframes>>

\* src/host/mcp-host.py, one iteration of the loop up to its first suspension.
HostReceive(c) == CanReceive(c) /\ HostTurn(c)

\* src/host/mcp-host.py: client.get(tool_url) has answered or failed in one of
\* the ways outs.
HostToolEnds(c, outs) ==
    /\ hostKind = "host"
    /\ pc[c] = "tools"
    /\ inflight' = { r \in inflight : r.sess # c }
    /\ \E r \in { q \in inflight : q.sess = c }, out \in outs :
         LET tool_response == HostToolResponse(r.name, out) IN
         /\ handled' = [handled EXCEPT ![c] = Finished(@, out)]
         /\ message_history' = [message_history EXCEPT
               ![c] = Append(@, Msg("assistant", tool_response, c, turn[c].seq))]
         /\ HostSend(c, LlmResponse(turn[c].user_message, tool_response, turn[c].seq))
    /\ turn' = [turn EXCEPT ![c] = NoTurn]
    /\ UNCHANGED <<selVars, streamVars, hostKind, discVars, available_tools, use_gemini, messages_history,
                   conn, inbox, nframes, llm_request>>

\* With several sessions, the request succeeds, is refused or times out.
HostToolDone(c) == HostToolEnds(c, {"formatted", "status", "timeout"})

Next ==
    \E c \in Sessions :
        \/ Accept(c)
        \/ ClientSend(c)
        \/ Disconnect(c)
        \/ HandlerExit(c)
        \/ RootReceive(c)
        \/ RootToolDone(c)
        \/ HostReceive(c)
        \/ HostToolDone(c)

Spec == Init /\ [][Next]_vars

(***************************************************************************)
(* One connection on its own, with every way a tool request can end.       *)
(***************************************************************************)
\* Bound: how many frames the peer sends on the connection.
MaxTurns == 3

NextTurns ==
    \/ Accept("c1")
    \/ ClientSends("c1", MaxTurns, Frames)
    \/ Disconnect("c1")
    \/ HandlerExit("c1")
    \/ RootReceive("c1")
    \/ RootToolEnds("c1", RootToolOutcomes)
    \/ HostReceive("c1")
    \/ HostToolEnds("c1", HostToolOutcomes)

SpecTurns == Init /\ [][NextTurns]_vars

\* C3: the messages of a session's completion request were all received on, or
\* produced for, that session.
C3_RequestOnlyOwnMessages ==
    \A c \in Sessions :
        \A k \in 1..Len(llm_request[c]) : llm_request[c][k].src = c

\* C4: a session never has more than one tool request in flight, and one is in
\* flight only while its handler is suspended in that turn, not taking frames.
InFlightOf(c) == { r \in inflight : r.sess = c }

C4_OneInvocationPerSession ==
    \A c \in Sessions :
        /\ Cardinality(InFlightOf(c)) <= 1
        /\ InFlightOf(c) # {} =>
              /\ pc[c] = "tools"
              /\ \A r \in InFlightOf(c) : r.seq = turn[c].seq
              /\ \A i \in 1..Len(inbox[c]) : inbox[c][i].seq > turn[c].seq

\* C4's case: a tool request is in flight and the next frame of the same session
\* has already arrived.
C4_Witness ==
    \E c \in Sessions : InFlightOf(c) # {} /\ inbox[c] # <<>>

\* C5: on each connection the replies (llm_response frames) are sent in the order
\* in which the frames that triggered them arrived.
Replies(c) == { i \in 1..Len(sent[c]) : sent[c][i].type = "llm_response" }

C5_RepliesInArrivalOrder ==
    \A c \in Sessions :
        \A i, j \in Replies(c) : i < j => sent[c][i].seq < sent[c][j].seq

\* C5's case: two replies on one connection, the first from a tool turn and the
\* second from a completion turn, while another connection is open.
C5_Witness ==
    \E c, d \in Sessions :
        /\ c # d
        /\ conn[d] = "open"
        /\ \E i, j \in Replies(c) :
              /\ i < j
              /\ sent[c][i].user_message = "show products"
              /\ sent[c][j].user_message = "hi"

\* The frames sent on connection c for the inbound frame numbered n.
SentFor(c, n) == { i \in 1..Len(sent[c]) : sent[c][i].seq = n }

\* The ways an invocation fails, and wordings that name each kind of failure.
FailureOutcomes ==
    {"error_event", "no_result", "status", "request_error", "timeout", "exception"}

FailureWords(out) ==
    IF out = "error_event" THEN {"error"}
    ELSE IF out = "no_result" THEN {"no result", "no data", "closed"}
    ELSE IF out = "status" THEN {"HTTP", "status"}
    ELSE IF out = "request_error" THEN {"connection"}
    ELSE IF out = "timeout" THEN {"taking too long", "timed out", "timeout"}
    ELSE {"error"}

\* C13: when the invocation of the selected tool has failed, the reply sent for
\* that turn is an llm_response that names the tool and the kind of failure.
C13_FailureReplyNamesToolAndKind ==
    \A c \in Sessions :
        handled[c].outcome \in FailureOutcomes =>
            \A i \in SentFor(c, handled[c].seq) :
                /\ sent[c][i].type = "llm_response"
                /\ Contains(handled[c].tool, sent[c][i].response)
                /\ \E w \in FailureWords(handled[c].outcome) :
                      Contains(w, sent[c][i].response)

\* The texts of the exceptions raised in a run: requests' connection error and
\* json.loads on a frame that is not JSON.
ExceptionTexts == {"Connection refused", "Expecting value"}

\* C14: no frame sent to the peer contains the text of an exception.
C14_NoExceptionTextInFrames ==
    \A c \in Sessions :
        \A i \in 1..Len(sent[c]) :
            \A e \in ExceptionTexts :
                /\ sent[c][i].response # Missing => ~Contains(e, sent[c][i].response)
                /\ sent[c][i].error # Missing => ~Contains(e, sent[c][i].error)

\* C15: the reply for an invocation that timed out contains the tool's name and
\* "taking too long", and does not report a connection error.
C15_TimeoutReplySaysTakingTooLong ==
    \A c \in Sessions :
        handled[c].outcome = "timeout" =>
            \A i \in SentFor(c, handled[c].seq) :
                /\ sent[c][i].type = "llm_response"
                /\ Contains(handled[c].tool, sent[c][i].response)
                /\ Contains("taking too long", sent[c][i].response)
                /\ ~Contains("connection error", sent[c][i].response)

\* A frame that reports a failed turn: an error frame, or a reply with the text
\* of a failed completion request or a failed invocation.
ReportsFailure(frame) ==
    \/ frame.error # Missing
    \/ /\ frame.response # Missing
       /\ \/ StartsWith(frame.response, "Error: ")
          \/ Contains("encountered", frame.response)

\* C16: a handler ends only when its own connection is closed, whatever happened
\* in its turns and on the other connections; and on an open connection every
\* user message whose turn is over has been answered.
C16_OnlyCloseEndsSession ==
    \A c \in Sessions :
        /\ pc[c] = "done" => conn[c] = "closed"
        /\ (/\ conn[c] = "open"
            /\ pc[c] = "await"
            /\ handled[c].type = "user_message") => SentFor(c, handled[c].seq) # {}

\* C16's case: a turn of a connection failed, the next user message on it was
\* answered, and meanwhile the other connection was closed and its handler ended.
C16_Witness ==
    \E c, d \in Sessions :
        /\ c # d
        /\ pc[d] = "done"
        /\ conn[c] = "open"
        /\ pc[c] = "await"
        /\ \E i, j \in 1..Len(sent[c]) :
              /\ ReportsFailure(sent[c][i])
              /\ sent[c][j].seq > sent[c][i].seq
              /\ sent[c][j].type = "llm_response"
              /\ ~ReportsFailure(sent[c][j])

\* C19: on every accepted connection the first frame sent is a system_message,
\* no later frame is one, and it is sent before a frame of the peer is taken.
C19_GreetingFirstAndOnce ==
    \A c \in Sessions :
        conn[c] # "new" =>
            /\ sent[c] # <<>>
            /\ sent[c][1].type = "system_message"
            /\ \A i \in 2..Len(sent[c]) : sent[c][i].type # "system_message"

\* The history a session's completion requests are built from.
HistoryOf(c) == IF hostKind = "root" THEN messages_history ELSE message_history[c]

\* C20: a clear_history frame taken on an open connection is answered with a
\* history_cleared frame, the session's history is then empty and the handler
\* goes on awaiting frames; a completion request made after a clear holds no
\* message of a turn before it.
C20_ClearHistoryResets ==
    \A c \in Sessions :
        /\ (handled[c].type = "clear_history" /\ conn[c] = "open") =>
              /\ pc[c] = "await"
              /\ \E i \in SentFor(c, handled[c].seq) : sent[c][i].type = "history_cleared"
              /\ HistoryOf(c) = <<>>
        /\ \A i \in 1..Len(sent[c]) :
              (/\ sent[c][i].type = "history_cleared"
               /\ \E k \in 1..Len(llm_request[c]) : llm_request[c][k].seq > sent[c][i].seq)
              => \A k \in 1..Len(llm_request[c]) : llm_request[c][k].seq > sent[c][i].seq

\* The handler has taken a frame that is not JSON or has no known type.
TookBadFrame(c) ==
    /\ handled[c].seq > 0
    /\ \/ handled[c].json = "invalid"
       \/ handled[c].type \notin {"user_message", "clear_history"}

\* C21: a frame that is not JSON or has no known type is ignored: nothing is
\* sent for it, no history entry is made for it, and the handler goes on unless
\* the connection is closed.
C21_BadFrameIsIgnored ==
    \A c \in Sessions :
        TookBadFrame(c) =>
            /\ SentFor(c, handled[c].seq) = {}
            /\ \A k \in 1..Len(HistoryOf(c)) :
                  ~(HistoryOf(c)[k].src = c /\ HistoryOf(c)[k].seq = handled[c].seq)
            /\ pc[c] = "done" => conn[c] = "closed"

(***************************************************************************)
(* One connection with user messages only: a history that outgrows the     *)
(* window of the completion request.                                       *)
(***************************************************************************)
\* Bound: how many user messages the peer sends on the connection.
MaxMessages == 4

NextWindow ==
    \/ Accept("c1")
    \/ ClientSends("c1", MaxMessages, UserFrames)
    \/ RootReceive("c1")
    \/ RootToolEnds("c1", {"result"})
    \/ HostReceive("c1")
    \/ HostToolEnds("c1", {"formatted"})

SpecWindow == Init /\ [][NextWindow]_vars

\* message_history[-5:]
RetainedWindow == 5

\* The last turn of connection c was answered by the completion backend.
FallbackTurnDone(c) ==
    /\ pc[c] = "await"
    /\ handled[c].type = "user_message"
    /\ handled[c].outcome \notin {"pending", "result", "formatted"}
    /\ llm_request[c] # <<>>

IsReplyOf(m, n) == m.role = "assistant" /\ m.seq = n

\* The session's history as it was when the completion request of its last
\* turn was made: without that turn's reply.
WithoutReplyOf(hist, n) ==
    IF hist = <<>> THEN <<>>
    ELSE IF IsReplyOf(hist[Len(hist)], n) THEN ButLast(hist)
    ELSE hist

\* C22: when the history is longer than the window, the completion request of a
\* fallback turn holds exactly the last 5 messages of the history, oldest first,
\* the user message of the turn being the last one.
C22_RequestIsLastFiveMessages ==
    \A c \in Sessions :
        LET before == WithoutReplyOf(HistoryOf(c), handled[c].seq) IN
        (FallbackTurnDone(c) /\ Len(before) > RetainedWindow) =>
            /\ llm_request[c] = LastK(before, RetainedWindow)
            /\ llm_request[c][Len(llm_request[c])].role = "user"
            /\ llm_request[c][Len(llm_request[c])].seq = handled[c].seq

\* C23: when the completion request of a turn has failed, the frame sent for the
\* turn reports the failure in general words, without the text of the exception,
\* one is sent when the connection is open, and the handler goes on.
C23_CompletionFailureGetsGenericReply ==
    \A c \in Sessions :
        handled[c].completion \in {"status", "exception"} =>
            /\ conn[c] = "open" => pc[c] = "await" /\ SentFor(c, handled[c].seq) # {}
            /\ \A i \in SentFor(c, handled[c].seq) :
                  /\ ReportsFailure(sent[c][i])
                  /\ \A e \in ExceptionTexts :
                        /\ sent[c][i].response # Missing =>
                              ~Contains(e, sent[c][i].response)
                        /\ sent[c][i].error # Missing => ~Contains(e, sent[c][i].error)

\* C24: no tool request of a session is in flight once its connection is closed.
C24_NoInvocationAfterClose ==
    \A c \in Sessions : conn[c] = "closed" => InFlightOf(c) = {}

FrameTypes == {"system_message", "llm_response", "history_cleared", "error"}

\* C25: every frame sent to a peer has one of the four types of the protocol,
\* and a frame that reports an error has type error.
C25_FramesHaveProtocolTypes ==
    \A c \in Sessions :
        \A i \in 1..Len(sent[c]) :
            /\ sent[c][i].type \in FrameTypes
            /\ sent[c][i].error # Missing => sent[c][i].type = "error"

\* C28: no step of a session changes the registry: it stays the list that
\* discovery built when the host was constructed.
C28_RegistryIsReadOnly ==
    [][available_tools' = available_tools /\ available_tools' = tools']_vars

\* C28's case: a session has had a tool turn answered, has then taken a
\* clear_history frame, and its connection has been closed and its handler ended.
C28_Witness ==
    /\ pc["c1"] = "done"
    /\ handled["c1"].type = "clear_history"
    /\ \E i \in 1..Len(sent["c1"]) :
          /\ sent["c1"][i].type = "llm_response"
          /\ sent["c1"][i].user_message = "show products"
    /\ available_tools # <<>>

(***************************************************************************)
(* The event loop. All handlers are tasks of one asyncio loop, which runs  *)
(* one of them at a time, from one `await` to the next. query_gemini and   *)
(* the Ollama request call requests.post, which is not awaited: the task   *)
(* that is in it keeps the loop until the call returns. Here that call is  *)
(* a state of its own, pc = "llm".                                         *)
(***************************************************************************)
\* No handler is inside requests.post: the loop can run a task.
LoopFree == \A c \in Sessions : pc[c] # "llm"

\* The frame the iterator hands over next makes the handler call the completion
\* backend before it reaches an `await`: in src/host every user message with
\* content (the selection prompt), in src/mcp-host.py a message no trigger
\* phrase matches.
AsksCompletion(c) ==
    LET f == Dequeue(inbox[c]).frame
        um == IF f.type = "user_message" THEN f.content ELSE f.message
    IN
    /\ f.json = "object"
    /\ um \notin {Missing, NotText}
    /\ IF hostKind = "host"
       THEN f.type = "user_message" /\ Strip(um) # ""
       ELSE DeterministicSelect(available_tools, um) = 0

\* The handler has taken a frame and is inside requests.post.
EnterCompletion(c) ==
    /\ LoopFree
    /\ CanReceive(c)
    /\ AsksCompletion(c)
    /\ pc' = [pc EXCEPT ![c] = "llm"]
    /\ UNCHANGED <<selVars, streamVars, hostKind, discVars, available_tools, use_gemini,
                   clients, messages_history, message_history, conn, inbox, sent, turn,
                   inflight, nframes, llm_request, handled>>

\* requests.post has returned or raised; the handler runs on to its next `await`.
LeaveCompletion(c) ==
    /\ pc[c] = "llm"
    /\ (RootTurn(c) \/ HostTurn(c))

\* The loop runs the handler of c for a frame that needs no completion request
\* before the next `await`.
TakeOther(c) ==
    /\ LoopFree
    /\ CanReceive(c)
    /\ ~AsksCompletion(c)
    /\ (RootTurn(c) \/ HostTurn(c))

\* The handler of c takes the frame that has arrived for it.
TakeFrame(c) == EnterCompletion(c) \/ TakeOther(c)

NextLoop ==
    \E c \in Sessions :
        \/ LoopFree /\ Accept(c)
        \/ ClientSend(c)
        \/ Disconnect(c)
        \/ LoopFree /\ HandlerExit(c)
        \/ EnterCompletion(c)
        \/ LeaveCompletion(c)
        \/ TakeOther(c)
        \/ LoopFree /\ RootToolDone(c)
        \/ LoopFree /\ HostToolDone(c)

SpecLoop == Init /\ [][NextLoop]_vars

\* C31: while the handler of one session waits for the completion backend, the
\* handler of another session that has a frame to take can take it.
C31_CompletionWaitIsSuspension ==
    \A c, d \in Sessions :
        (c # d /\ pc[c] = "llm" /\ CanReceive(d)) => ENABLED TakeFrame(d)

\* C37: in src/host/mcp-host.py, whenever a handler is not in the middle of a
\* turn its history is a list of pairs: a user entry and the assistant entry of
\* the same turn, the turns in the order of their frames; so its length is even.
\* In the middle of a turn the last entry is the user entry of that turn. Right
\* after a clear_history frame the history is empty.
C37_HistoryAlternates ==
    hostKind = "host" =>
        \A c \in Sessions :
            LET hist == message_history[c] IN
            /\ \A k \in 1..Len(hist) :
                  /\ hist[k].role = (IF k % 2 = 1 THEN "user" ELSE "assistant")
                  /\ (k % 2 = 0) => hist[k].seq = hist[k - 1].seq
                  /\ (k > 2 /\ k % 2 = 1) => hist[k].seq > hist[k - 2].seq
            /\ pc[c] \in {"none", "await", "done"} => Len(hist) % 2 = 0
            /\ pc[c] = "tools" => Len(hist) % 2 = 1
            /\ (pc[c] = "await" /\ handled[c].type = "clear_history") => hist = <<>>

\* C37's case: a handler awaiting its next frame after two turns, one answered by
\* a tool and one by the failure text of the completion backend.
C37_Witness ==
    /\ hostKind = "host"
    /\ pc["c1"] = "await"
    /\ Len(message_history["c1"]) = 4
    /\ \E j, k \in {2, 4} :
          /\ StartsWith(message_history["c1"][j].content, "Error: ")
          /\ Contains("get_products tool", message_history["c1"][k].content)

(***************************************************************************)
(* One connection whose peer also sends user messages without content.     *)
(***************************************************************************)
\* {"type": "user_message"}, and the same with "content": "" and "content": " \n".
BlankFrames ==
    { [json |-> "object", type |-> "user_message", content |-> u, message |-> Missing] :
        u \in {Missing, "", " \n"} }

\* What the peer sends: user messages with and without content.
UserOrBlankFrames == UserFrames \cup BlankFrames

NextBlank ==
    \/ Accept("c1")
    \/ ClientSends("c1", MaxTurns, UserOrBlankFrames)
    \/ Disconnect("c1")
    \/ HandlerExit("c1")
    \/ RootReceive("c1")
    \/ RootToolEnds("c1", {"result", "timeout"})
    \/ HostReceive("c1")
    \/ HostToolEnds("c1", {"formatted", "timeout"})

SpecBlank == Init /\ [][NextBlank]_vars

\* The frame the handler of c takes next is a user message without content.
NextIsBlank(c) ==
    /\ CanReceive(c)
    /\ inbox[c][1].type = "user_message"
    /\ \/ inbox[c][1].content = Missing
       \/ \A i \in 1..Len(inbox[c][1].content) : IsSpace(SubSeq(inbox[c][1].content, i, i))

\* C38: in src/host/mcp-host.py the step that takes a user message without
\* content changes nothing but the inbox: no history entry, no completion
\* request, no tool request, no frame to the peer, and the handler goes on
\* awaiting frames.
C38_BlankMessageIsNoOp ==
    [][\A c \in Sessions :
          (hostKind = "host" /\ NextIsBlank(c) /\ inbox'[c] = Tail(inbox[c])) =>
              /\ message_history' = message_history
              /\ llm_request' = llm_request
              /\ inflight' = inflight
              /\ sent' = sent
              /\ handled'[c].tool = "" /\ handled'[c].completion = ""
              /\ pc'[c] = "await"
              /\ conn' = conn]_vars

\* C38's case: after an answered turn the handler has taken a user message
\* without content on the open connection and awaits the next frame.
C38_Witness ==
    /\ hostKind = "host"
    /\ conn["c1"] = "open"
    /\ pc["c1"] = "await"
    /\ Len(message_history["c1"]) = 2
    /\ handled["c1"].seq = 2
    /\ handled["c1"].type = "user_message"
    /\ SentFor("c1", 2) = {}
    /\ inbox["c1"] = <<>>

\* The connections whose handler is running.
Running == { c \in Sessions : pc[c] \notin {"none", "done"} }

\* C32: the client set holds exactly the connections whose handler is running,
\* and once a handler has ended no message of its session is left in the history
\* the host builds completion requests from.
C32_SessionStateDestroyedOnDisconnect ==
    /\ clients = Running
    /\ \A d \in Sessions :
          pc[d] = "done" =>
              \A k \in 1..Len(messages_history) : messages_history[k].src # d

(***************************************************************************)
(* One connection that stays open: does every user message get its reply?  *)
(* The loop runs a task that can run, and a tool request ends within its   *)
(* timeout (httpx, 30 s and 10 s); requests.post is given no timeout, so   *)
(* nothing makes a completion request return.                              *)
(***************************************************************************)
\* {"type": "user_message", "content": 5}
NonTextFrame ==
    [json |-> "object", type |-> "user_message", content |-> NotText, message |-> Missing]

ReplyFrames == UserFrames \cup {NonTextFrame}

HandlerStep ==
    \/ LoopFree /\ Accept("c1")
    \/ TakeFrame("c1")
    \/ LoopFree /\ RootToolEnds("c1", RootToolOutcomes)
    \/ LoopFree /\ HostToolEnds("c1", HostToolOutcomes)

NextReplies ==
    \/ ClientSends("c1", MaxTurns, ReplyFrames)
    \/ HandlerStep
    \/ LeaveCompletion("c1")

SpecReplies == Init /\ [][NextReplies]_vars /\ WF_vars(HandlerStep)

\* The peer has sent a user message with content as its n-th frame, and the
\* handler has not taken it yet.
AwaitsReply(c, n) ==
    \E i \in 1..Len(inbox[c]) :
        /\ inbox[c][i].seq = n
        /\ inbox[c][i].type = "user_message"
        /\ Strip(inbox[c][i].content) # ""

\* C33: on a connection that stays open, every user message with content is
\* eventually answered with one frame, and no frame of the peer is ever answered
\* with more than one.
C33_EveryMessageGetsOneReply ==
    /\ \A n \in 1..MaxTurns :
          AwaitsReply("c1", n) ~> (Cardinality(SentFor("c1", n)) = 1)
    /\ [](\A n \in 1..MaxTurns : Cardinality(SentFor("c1", n)) <= 1)

(***************************************************************************)
(* check_and_use_tools on its own: one call, up to the tool request.       *)
(***************************************************************************)
\* Descriptors of a provider whose GET /tools answer gives a "url" key as well.
UrlTool(n, d, u) ==
    [t |-> "dict", name |-> n, description |-> d, parameters |-> "{}", url |-> u,
     v |-> Missing]

OkList(items) == [net |-> "ok", status |-> 200, shape |-> "list", items |-> items]

EagleServer ==
    [name |-> "Eagle Feed", url |-> "http://localhost:5002", path |-> "/feeds"]
ProductServer ==
    [name |-> "product-server", url |-> "http://localhost:5001", path |-> "/products"]
OtherServer ==
    [name |-> "catalog", url |-> "http://localhost:5003", path |-> Missing]

\* Configurations, and start-up answers of their providers, a call can follow.
SelectionDeployments ==
    { [servers |-> <<>>, resps |-> <<>>],
      [servers |-> <<ProductServer>>, resps |-> <<OkList(<<ProductsTool>>)>>],
      [servers |-> <<EagleServer, ProductServer>>,
       resps |-> <<OkList(<<WeatherTool>>), OkList(<<ProductsTool>>)>>],
      [servers |-> <<OtherServer, ProductServer>>,
       resps |-> <<OkList(<<UrlTool("get_product", "Get one product",
                                    "http://localhost:5003/product"),
                            UrlTool("one", "Pick one item",
                                    "http://localhost:5003/one")>>),
                   OkList(<<ProductsTool>>)>>],
      [servers |-> <<OtherServer, ProductServer>>,
       resps |-> <<[net |-> "ok", status |-> 200, shape |-> "dict",
                    items |-> <<KeyItem("tools")>>],
                   OkList(<<ProductsTool>>)>>],
      [servers |-> <<OtherServer>>,
       resps |-> <<OkList(<<UrlTool("status", "Report the status of the service",
                                    "http://localhost:5003/status")>>)>>] }

\* User messages a call can be given.
SelectionMessages ==
    { "please show products", "what's the weather", "SHOW PRODUCTS",
      "  Get Products now ", "can you fetch products?", "show  products",
      "products", "show product", "hi", "" }

\* What the completion backend can do with the selection prompt.
SelectionAnswers ==
    { Ok("none"), Ok("None"), Ok(" NONE\n"), Ok(""), Ok("   "),
      Ok("get_products"), Ok("GET_PRODUCTS\n"), Ok("I would use get_products."),
      Ok("get_eagle_feeds"), Ok("get_products or get_eagle_feeds"),
      Ok("get_eagle_feeds, then get_products"), Ok("get_weather"),
      Ok("one"), Ok("get_product"), Ok("nonexistent"),
      Status("500"), Raised("Connection refused") }

InitSelection ==
    /\ hostKind \in HostKinds
    /\ \E d \in SelectionDeployments :
         /\ tool_servers = d.servers
         /\ responses = Answered(hostKind, d.servers, d.resps)
         /\ tools = DiscoverAll(hostKind, d.servers, d.resps, 1, <<>>)
         /\ server_idx = Len(d.servers) + 1
    /\ ~(hostKind = "host" /\ LoggingRaises(tools))
    /\ available_tools = tools
    /\ ctor = "done"
    /\ use_gemini = FALSE
    /\ NoSessions
    /\ IF hostKind = "root"
       THEN sel_message \in SelectionMessages /\ sel_outcome = Ok("")
       ELSE sel_message = "hi" /\ sel_outcome \in SelectionAnswers
    /\ sel_pc = "start"
    /\ requested = NoRequest
    /\ NoStream

\* src/host/mcp-host.py, check_and_use_tools lines 224-289.
DelegatedSelection ==
    /\ hostKind = "host"
    /\ sel_pc = "start"
    /\ LET k == DelegatedSelect(available_tools, query_gemini(sel_outcome)) IN
       requested' = IF k > 0 THEN Request("c1", 1, k) ELSE NoRequest
    /\ sel_pc' = "done"
    /\ UNCHANGED <<hostKind, discVars, available_tools, sessVars,
                   sel_message, sel_outcome, streamVars>>

\* src/mcp-host.py, check_and_use_tools lines 147-175.
DeterministicSelection ==
    /\ hostKind = "root"
    /\ sel_pc = "start"
    /\ LET k == DeterministicSelect(available_tools, sel_message) IN
       requested' = IF k > 0 THEN Request("c1", 1, k) ELSE NoRequest
    /\ sel_pc' = "done"
    /\ UNCHANGED <<hostKind, discVars, available_tools, sessVars,
                   sel_message, sel_outcome, streamVars>>

NextSelection == DelegatedSelection \/ DeterministicSelection

SpecSelection == InitSelection /\ [][NextSelection]_vars

\* C6: delegated selection requests a tool only if it is a descriptor of the
\* registry whose name occurs, case-insensitively, in the backend's answer; on the
\* answer "none", on an empty answer and on an answer with no registered name in
\* it, no tool is requested (check_and_use_tools returns None).
NameIn(name, answer) == Contains(Lower(name), Lower(answer))

C6_RequestsOnlyNamedRegisteredTool ==
    (hostKind = "host" /\ sel_pc = "done") =>
        LET answer == query_gemini(sel_outcome) IN
        /\ requested # NoRequest =>
              \E k \in 1..Len(available_tools) :
                  /\ available_tools[k].name = requested.name
                  /\ available_tools[k].url = requested.url
                  /\ NameIn(requested.name, answer)
        /\ (\/ answer = "none"
            \/ answer = ""
            \/ \A k \in 1..Len(available_tools) : ~NameIn(available_tools[k].name, answer))
              => requested = NoRequest

\* C6's case: the answer is a sentence naming a registered tool, which is requested.
C6_Witness ==
    /\ hostKind = "host"
    /\ sel_pc = "done"
    /\ sel_outcome = Ok("I would use get_products.")
    /\ requested.name = "get_products"

\* C7: when the names of two or more registered descriptors occur in the answer,
\* no tool is requested.
Matching(answer) ==
    { k \in 1..Len(available_tools) :
        Contains(Lower(available_tools[k].name), Lower(Strip(answer))) }

C7_NoRequestOnAmbiguousAnswer ==
    (/\ hostKind = "host"
     /\ sel_pc = "done"
     /\ Cardinality(Matching(query_gemini(sel_outcome))) > 1) => requested = NoRequest

\* C8: deterministic selection requests get_products, and nothing else, exactly
\* when the lowercased message has a trigger phrase as a substring and the
\* registry lookup finds the get_products descriptor; a message with no trigger
\* phrase never leads to a request.
HasPhrase(text) ==
    \E phrase \in TriggerPhrases :
        \E i \in 1..(Len(text) - Len(phrase) + 1) :
            SubSeq(Lower(text), i, i + Len(phrase) - 1) = phrase

ProductsRegistered ==
    \E k \in 1..Len(available_tools) :
        /\ available_tools[k].name = "get_products"
        /\ \A j \in 1..k : available_tools[j].t = "dict"

C8_TriggerPhraseSelects ==
    (hostKind = "root" /\ sel_pc = "done") =>
        /\ ~HasPhrase(sel_message) => requested = NoRequest
        /\ requested # NoRequest => requested.name = "get_products"
        /\ ProductsRegistered => (requested # NoRequest <=> HasPhrase(sel_message))
        /\ sel_message = "what's the weather" => requested = NoRequest
        /\ (sel_message = "please show products" /\ ProductsRegistered)
              => requested.name = "get_products"

\* C8's case: "please show products" has selected get_products.
C8_Witness ==
    /\ hostKind = "root"
    /\ sel_pc = "done"
    /\ sel_message = "please show products"
    /\ requested.name = "get_products"

\* The descriptor a request was made for: the first one of the registry with
\* the requested name.
IsSelected(k) ==
    /\ available_tools[k].name = requested.name
    /\ \A j \in 1..(k - 1) : available_tools[j].name # requested.name

\* C26: a request goes to an endpoint of the provider that supplied the
\* selected descriptor, wherever that provider stands in the configuration.
C26_RequestGoesToSelectedProvider ==
    (sel_pc = "done" /\ requested # NoRequest) =>
        \E k \in 1..Len(available_tools) :
            /\ IsSelected(k)
            /\ StartsWith(requested.url, tool_servers[available_tools[k].src].url)

\* C36: when the completion backend has failed on the selection prompt, no tool
\* is requested.
C36_FailedSelectionRequestsNothing ==
    (hostKind = "host" /\ sel_pc = "done" /\ sel_outcome.kind # "ok") =>
        requested = NoRequest

(***************************************************************************)
(* The event stream of a tool request, as src/mcp-host.py reads it.        *)
(***************************************************************************)
\* Bound: how many lines a stream has.
MaxLines == 3

\* JSON values: the type and what Python's truth test and len() see of it.
JNum(n) == [t |-> "number", n |-> n]
JList(items) == [t |-> "list", n |-> Len(items), items |-> items]
JObject(n) == [t |-> "object", n |-> n]

\* An element of a result list: a product object (a key it does not have holds
\* Missing), or a value that is no object.
Product(name, brand) == [t |-> "dict", product_name |-> name, brand_name |-> brand]
NotAnObject == [t |-> "number", product_name |-> Missing, brand_name |-> Missing]

\* json.loads on the payloads the streams carry. ok = FALSE: JSONDecodeError.
\* t is the type of the value; for an object, which of the keys "result" and
\* "error" it has, and the value of "result".
Parsed(t, has_result, result, has_error) ==
    [ok |-> TRUE, t |-> t, has_result |-> has_result, result |-> result,
     has_error |-> has_error]
Unparsable ==
    [ok |-> FALSE, t |-> "none", has_result |-> FALSE, result |-> JNone,
     has_error |-> FALSE]

JsonLoads(text) ==
    IF text = "{\"result\": 1}" THEN Parsed("object", TRUE, JNum(1), FALSE)
    ELSE IF text = "{\"result\": 0}" THEN Parsed("object", TRUE, JNum(0), FALSE)
    ELSE IF text = "{\"result\": [{\"product_name\": \"Soap\"}]}"
    THEN Parsed("object", TRUE, JList(<<Product("Soap", Missing)>>), FALSE)
    ELSE IF text = "{\"result\": []}" THEN Parsed("object", TRUE, JList(<<>>), FALSE)
    ELSE IF text = "{\"result\": {\"a\": 1}}" THEN Parsed("object", TRUE, JObject(1), FALSE)
    ELSE IF text = "{\"result\": null}" THEN Parsed("object", TRUE, JNone, FALSE)
    ELSE IF StartsWith(text, "{\"result\": {\"period\": \"")
    THEN Parsed("object", TRUE, JObject(4), FALSE)
    ELSE IF StartsWith(text, "{\"error\": \"") /\ Len(text) > 13
    THEN Parsed("object", FALSE, JNone, TRUE)
    ELSE IF text = "{}" THEN Parsed("object", FALSE, JNone, FALSE)
    ELSE IF text = "5" THEN Parsed("number", FALSE, JNone, FALSE)
    ELSE IF text = "[1]" THEN Parsed("list", FALSE, JNone, FALSE)
    ELSE Unparsable

\* The lines a provider's stream is made of.
StreamLines ==
    { "data: {\"result\": 1}",
      "data: {\"result\": [{\"product_name\": \"Soap\"}]}",
      "data: {\"result\": []}",
      "data: {\"result\": {\"a\": 1}}",
      "data: {\"error\": \"Failed to fetch products from API\"}",
      "data: {}",
      "data: not-json",
      "data: 5",
      "data:{\"result\": 1}",
      "event: close",
      "" }

\* line[6:]
Payload(line) == IF Len(line) <= 6 THEN "" ELSE SubSeq(line, 7, Len(line))

\* A faulty DecodeLine: a data line that is not JSON ends the loop with an exception.
DecodeLineAbortOnBadJson(st, line) ==
    IF StartsWith(line, "data: ")
    THEN LET data == JsonLoads(Payload(line)) IN
         IF ~data.ok THEN [st EXCEPT !.state = "raised"]
         ELSE IF data.t \notin {"object", "list", "string"}
         THEN [st EXCEPT !.state = "raised"]
         ELSE IF data.has_result THEN [st EXCEPT !.data = data.result]
         ELSE st
    ELSE IF StartsWith(line, "event: close") THEN [st EXCEPT !.state = "closed"]
    ELSE st

\* A faulty DecodeLine: the close event does not end the loop.
DecodeLineIgnoreClose(st, line) ==
    IF StartsWith(line, "data: ")
    THEN LET data == JsonLoads(Payload(line)) IN
         IF ~data.ok THEN st
         ELSE IF data.t \notin {"object", "list", "string"}
         THEN [st EXCEPT !.state = "raised"]
         ELSE IF data.has_result THEN [st EXCEPT !.data = data.result]
         ELSE st
    ELSE st

\* The body of `async for line in response.aiter_lines()` (src/mcp-host.py
\* 181-194) on st = [data: products_data, state]. JSONDecodeError is caught in
\* the loop; `"result" in data` raises TypeError on a value that is no container,
\* which leaves the loop.
DecodeLine(st, line) ==
    IF StartsWith(line, "data: ")
    THEN LET data == JsonLoads(Payload(line)) IN
         IF ~data.ok THEN st
         ELSE IF data.t \notin {"object", "list", "string"}
         THEN [st EXCEPT !.state = "raised"]
         ELSE IF data.has_result THEN [st EXCEPT !.data = data.result]
         ELSE st
    ELSE IF StartsWith(line, "event: close") THEN [st EXCEPT !.state = "closed"]
    ELSE st

\* The whole loop over the lines from line i on.
RECURSIVE DecodeFrom(_, _, _)
DecodeFrom(st, lines, i) ==
    IF i > Len(lines) THEN [st EXCEPT !.state = "exhausted"]
    ELSE LET next == DecodeLine(st, lines[i]) IN
         IF next.state # "reading" THEN next ELSE DecodeFrom(next, lines, i + 1)

Decode(lines) == DecodeFrom([data |-> JNone, state |-> "reading"], lines, 1)

InitStream ==
    /\ hostKind = "root"
    /\ \E d \in Deployments :
         /\ tool_servers = d.servers
         /\ responses = Answered(hostKind, d.servers, d.resps)
         /\ tools = DiscoverAll(hostKind, d.servers, d.resps, 1, <<>>)
         /\ server_idx = Len(d.servers) + 1
    /\ available_tools = tools
    /\ ctor = "done"
    /\ use_gemini = FALSE
    /\ NoSessions
    /\ sel_message = "show products"
    /\ sel_outcome = Ok("")
    /\ sel_pc = "done"
    /\ requested = Request("c1", 1, 1)
    /\ stream \in UNION { [1..n -> StreamLines] : n \in 0..MaxLines }
    /\ line_idx = 1
    /\ products_data = JNone
    /\ stream_pc = "reading"
    /\ response_text = NoneResponse
    /\ NoChunks
    /\ NoRun
    /\ NoLaunch

\* aiter_lines yields the next line and the loop body runs on it.
ReadLine ==
    /\ stream_pc = "reading"
    /\ line_idx <= Len(stream)
    /\ LET st == DecodeLine([data |-> products_data, state |-> "reading"],
                            stream[line_idx]) IN
       /\ products_data' = st.data
       /\ stream_pc' = st.state
    /\ line_idx' = line_idx + 1
    /\ UNCHANGED <<hostKind, discVars, available_tools, sessVars, selVars, stream,
                   response_text, chunkVars, runVars, launchVars>>

\* aiter_lines is exhausted: the response body has ended.
StreamEnd ==
    /\ stream_pc = "reading"
    /\ line_idx > Len(stream)
    /\ stream_pc' = "exhausted"
    /\ UNCHANGED <<hostKind, discVars, available_tools, sessVars, selVars, stream,
                   line_idx, products_data, response_text, chunkVars, runVars, launchVars>>

\* The cap of the enumeration: products_data[:10].
ShownCap == 10

\* Python's truth test `if products_data:`.
Truthy(v) ==
    IF v.t = "none" THEN FALSE
    ELSE v.n # 0

\* json.dumps(products_data, indent=2) of the values the streams carry.
Dumps(v) == IF v.t = "number" THEN ToString(v.n) ELSE "{\n  \"a\": 1\n}"

\* One pass of `for i, product in enumerate(products_data[:10], 1)`.
ProductLine(i, product) ==
    ToString(i) \o ". "
    \o (IF product.product_name = Missing THEN "Unknown" ELSE product.product_name)
    \o (IF product.brand_name = Missing THEN "" ELSE " by " \o product.brand_name)
    \o "\n\n"

\* A faulty Enumerate: the cap lets one item too many through.
RECURSIVE EnumerateOneMore(_, _)
EnumerateOneMore(items, i) ==
    IF i > Len(items) \/ i > ShownCap + 1 THEN ""
    ELSE ProductLine(i, items[i]) \o EnumerateOneMore(items, i + 1)

\* The loop of lines 202-206 from item i on.
RECURSIVE Enumerate(_, _)
Enumerate(items, i) ==
    IF i > Len(items) \/ i > ShownCap THEN ""
    ELSE ProductLine(i, items[i]) \o Enumerate(items, i + 1)

\* product.get raises AttributeError on an item that is no object.
EnumerateRaises(items) ==
    \E i \in 1..Len(items) : i <= ShownCap /\ items[i].t # "dict"

\* Lines 197-217: the reply made of a result; NoneResponse when formatting
\* raises, which the except clause of line 223 catches.
FormatReply(v) ==
    LET header == "Here are the products I found:\n\n" IN
    IF v.t = "list"
    THEN IF EnumerateRaises(v.items) THEN NoneResponse
         ELSE IF v.n > ShownCap
         THEN header \o Enumerate(v.items, 1)
              \o "(Showing 10 of " \o ToString(v.n) \o " products)"
         ELSE IF v.n = 0 THEN "No products were found."
         ELSE header \o Enumerate(v.items, 1)
    ELSE header \o "Found product data: " \o Dumps(v)

\* Lines 196-228: what check_and_use_tools returns for the result it kept.
ToolReply(v) == IF Truthy(v) THEN FormatReply(v) ELSE NoneResponse

\* The stream loop is over: check_and_use_tools returns. An exception that left
\* the loop is caught at line 223 and None is returned.
Return ==
    /\ stream_pc \in {"closed", "exhausted", "raised"}
    /\ response_text' = IF stream_pc = "raised" THEN NoneResponse
                        ELSE ToolReply(products_data)
    /\ stream_pc' = "returned"
    /\ UNCHANGED <<hostKind, discVars, available_tools, sessVars, selVars, stream,
                   line_idx, products_data, chunkVars, runVars, launchVars>>

NextStream == ReadLine \/ StreamEnd \/ Return

SpecStream == InitStream /\ [][NextStream]_vars

LoopEnded == stream_pc \in {"closed", "exhausted", "raised"}

IsBadJson(line) == StartsWith(line, "data: ") /\ ~JsonLoads(Payload(line)).ok

\* C9: a data line whose payload is not JSON does not abort the stream: when the
\* loop has ended, the result it kept and the way it ended are those of the same
\* stream with the unparsable data lines left out, so a result line that follows
\* such a line is still kept.
RECURSIVE WithoutBadJson(_)
WithoutBadJson(lines) ==
    IF lines = <<>> THEN <<>>
    ELSE IF IsBadJson(Head(lines)) THEN WithoutBadJson(Tail(lines))
    ELSE <<Head(lines)>> \o WithoutBadJson(Tail(lines))

C9_BadJsonLineIsSkipped ==
    (LoopEnded \/ stream_pc = "returned") =>
        /\ LoopEnded =>
              [data |-> products_data, state |-> stream_pc] = Decode(WithoutBadJson(stream))
        /\ stream_pc = "returned" => products_data = Decode(WithoutBadJson(stream)).data
        /\ \A j \in 1..Len(stream) :
              (/\ \A i \in 1..(j - 1) : IsBadJson(stream[i]) \/ stream[i] = ""
               /\ stream[j] = "data: {\"result\": 1}"
               /\ j = Len(stream)) => products_data = JNum(1)

\* C9's case: `data: not-json`, a blank line, then `data: {"result": 1}`.
C9_Witness ==
    /\ LoopEnded
    /\ stream = <<"data: not-json", "", "data: {\"result\": 1}">>
    /\ products_data = JNum(1)

\* C10: the close event is terminal: when the loop has ended, the result it kept
\* and the way it ended are those of the stream cut after its first close line.
IsClose(line) == ~StartsWith(line, "data: ") /\ StartsWith(line, "event: close")

RECURSIVE UpToClose(_)
UpToClose(lines) ==
    IF lines = <<>> THEN <<>>
    ELSE IF IsClose(Head(lines)) THEN <<Head(lines)>>
    ELSE <<Head(lines)>> \o UpToClose(Tail(lines))

C10_CloseIsTerminal ==
    /\ LoopEnded =>
          [data |-> products_data, state |-> stream_pc] = Decode(UpToClose(stream))
    /\ stream_pc = "returned" => products_data = Decode(UpToClose(stream)).data
    /\ (\E i \in 1..(line_idx - 1) : IsClose(stream[i])) =>
          stream_pc \in {"closed", "returned"}

\* C10's case: a result line follows the close event and is not taken.
C10_Witness ==
    /\ stream_pc = "closed"
    /\ \E i, j \in 1..Len(stream) :
          /\ i < j
          /\ IsClose(stream[i])
          /\ stream[j] = "data: {\"result\": 1}"
    /\ products_data = JNone

\* C12: the invoker returns the last result seen: when a stream carries result
\* events before its close event, the loop keeps the payload of the last of them,
\* whatever its value, and the reply is formatted from that payload. (Stated for
\* the streams whose loop is not left by an exception.)
RECURSIVE ResultsOf(_)
ResultsOf(lines) ==
    IF lines = <<>> THEN <<>>
    ELSE IF IsClose(Head(lines)) THEN <<>>
    ELSE IF /\ StartsWith(Head(lines), "data: ")
            /\ JsonLoads(Payload(Head(lines))).ok
            /\ JsonLoads(Payload(Head(lines))).has_result
    THEN <<JsonLoads(Payload(Head(lines))).result>> \o ResultsOf(Tail(lines))
    ELSE ResultsOf(Tail(lines))

LastResult == ResultsOf(stream)[Len(ResultsOf(stream))]

C12_LastResultIsReturned ==
    (ResultsOf(stream) # <<>> /\ Decode(stream).state # "raised") =>
        /\ LoopEnded => products_data = LastResult
        /\ stream_pc = "returned" =>
              /\ products_data = LastResult
              /\ response_text = FormatReply(LastResult)

\* A data line whose payload is JSON but not an object.
IsNotObject(line) ==
    /\ StartsWith(line, "data: ")
    /\ JsonLoads(Payload(line)).ok
    /\ JsonLoads(Payload(line)).t # "object"

RECURSIVE WithoutNotObject(_)
WithoutNotObject(lines) ==
    IF lines = <<>> THEN <<>>
    ELSE IF IsNotObject(Head(lines)) THEN WithoutNotObject(Tail(lines))
    ELSE <<Head(lines)>> \o WithoutNotObject(Tail(lines))

\* C34: a data line whose payload is JSON but not an object is skipped: when the
\* loop has ended, the result it kept and the way it ended are those of the same
\* stream with such lines left out, and the loop is not left by an exception.
C34_NonObjectLineIsSkipped ==
    LoopEnded =>
        /\ [data |-> products_data, state |-> stream_pc] =
              Decode(WithoutNotObject(stream))
        /\ stream_pc # "raised"

\* C18: when the invocation ends with an empty list as its result, the reply is
\* the nothing-found message.
C18_EmptyListRepliesNothingFound ==
    (stream_pc = "returned" /\ products_data = JList(<<>>)) =>
        response_text = "No products were found."

(***************************************************************************)
(* Reply formatting on its own: lines 196-228 of src/mcp-host.py applied   *)
(* to the result a stream loop has kept.                                   *)
(***************************************************************************)
\* Bound: how many items a result list has.
MaxItems == 12

ProductNames ==
    <<"Soap", "Brush", "Comb", "Towel", "Razor", "Lotion", "Candle", "Mirror",
      "Basket", "Sponge", "Kettle", "Ladle", "Whisk", "Grater">>

\* What the items of a result list look like.
ItemPatterns == {"plain", "branded", "mixed", "nameless", "bad_first", "bad_eleventh"}

ItemAt(i, pattern) ==
    IF pattern = "branded" THEN Product(ProductNames[i], "Acme")
    ELSE IF pattern = "mixed"
    THEN Product(ProductNames[i], IF i % 2 = 1 THEN "Acme" ELSE Missing)
    ELSE IF pattern = "nameless" /\ i = 2 THEN Product(Missing, Missing)
    ELSE IF pattern = "bad_first" /\ i = 1 THEN NotAnObject
    ELSE IF pattern = "bad_eleventh" /\ i = 11 THEN NotAnObject
    ELSE Product(ProductNames[i], Missing)

\* The results a provider's stream can leave in products_data.
ResultValues ==
    { JList([i \in 1..m |-> ItemAt(i, pattern)]) : m \in 0..MaxItems, pattern \in ItemPatterns }
    \cup { JNone, JNum(0), JNum(1), JObject(0), JObject(1) }

InitFormat ==
    /\ hostKind = "root"
    /\ \E d \in Deployments :
         /\ tool_servers = d.servers
         /\ responses = Answered(hostKind, d.servers, d.resps)
         /\ tools = DiscoverAll(hostKind, d.servers, d.resps, 1, <<>>)
         /\ server_idx = Len(d.servers) + 1
    /\ available_tools = tools
    /\ ctor = "done"
    /\ use_gemini = FALSE
    /\ NoSessions
    /\ sel_message = "show products"
    /\ sel_outcome = Ok("")
    /\ sel_pc = "done"
    /\ requested = Request("c1", 1, 1)
    /\ stream = <<>>
    /\ line_idx = 1
    /\ products_data \in ResultValues
    /\ stream_pc \in {"closed", "exhausted"}
    /\ response_text = NoneResponse
    /\ NoChunks
    /\ NoRun
    /\ NoLaunch

SpecFormat == InitFormat /\ [][Return]_vars

EndsWith(s, suffix) ==
    /\ Len(s) >= Len(suffix)
    /\ (Len(suffix) = 0 \/ SubSeq(s, Len(s) - Len(suffix) + 1, Len(s)) = suffix)

\* The position of the first occurrence of sub in s at or after position i, 0 if none.
RECURSIVE IndexOf(_, _, _)
IndexOf(sub, s, i) ==
    IF i + Len(sub) - 1 > Len(s) THEN 0
    ELSE IF SubSeq(s, i, i + Len(sub) - 1) = sub THEN i
    ELSE IndexOf(sub, s, i + 1)

\* How the reply names the i-th item: its number, then its name.
Listed(i, item) ==
    ToString(i) \o ". "
    \o (IF item.product_name = Missing THEN "Unknown" ELSE item.product_name)

\* The items i..k are listed in text from position from on, in this order.
RECURSIVE ListedInOrder(_, _, _, _, _)
ListedInOrder(text, items, i, k, from) ==
    IF i > k THEN TRUE
    ELSE LET at == IndexOf(Listed(i, items[i]), text, from) IN
         /\ at # 0
         /\ ListedInOrder(text, items, i + 1, k, at + Len(Listed(i, items[i])))

Min(a, b) == IF a < b THEN a ELSE b

\* The reply enumerates exactly the first min(M, 10) items, in payload order,
\* numbered from 1.
EnumeratesFirstTen(text, v) ==
    /\ text # NoneResponse
    /\ ListedInOrder(text, v.items, 1, Min(v.n, 10), 1)
    /\ ~Contains("\n" \o ToString(Min(v.n, 10) + 1) \o ". ", text)
    /\ \A j \in 11..v.n : v.items[j].product_name # Missing =>
                               ~Contains(v.items[j].product_name, text)

\* A non-empty list whose first min(M, 10) items are objects has been formatted.
ProductListFormatted ==
    /\ stream_pc = "returned"
    /\ products_data.t = "list"
    /\ products_data.n >= 1
    /\ \A i \in 1..Min(products_data.n, 10) : products_data.items[i].t = "dict"

MaxChunks == 3

\* Response bodies of a provider's /run.
StreamTexts ==
    { "data: {\"result\": 1}\n\nevent: close\ndata: {}\n\n",
      "data: not-json\n\ndata: {\"result\": 1}\n",
      "data: {\"result\": []}\nevent: close",
      "data: {}\ndata: {\"result\": 1}" }

\* The position of the first line terminator of s from position i on, 0 if none.
FirstNewline(s, i) ==
    LET at == { k \in i..Len(s) : SubSeq(s, k, k) = "\n" } IN
    IF at = {} THEN 0 ELSE CHOOSE k \in at : \A j \in at : k <= j

\* str.splitlines with the unterminated end kept apart: the complete lines of s
\* and the text after the last terminator.
RECURSIVE Feed(_)
Feed(s) ==
    LET k == FirstNewline(s, 1) IN
    IF k = 0 THEN [lines |-> <<>>, buffer |-> s]
    ELSE LET r == Feed(SubSeq(s, k + 1, Len(s))) IN
         [lines |-> <<SubSeq(s, 1, k - 1)>> \o r.lines, buffer |-> r.buffer]

\* A faulty LineDecode: every piece is cut into lines on its own, so the end of a
\* piece ends a line.
LineDecodePerChunk(buf, text) ==
    LET r == Feed(text) IN
    [lines |-> r.lines \o (IF r.buffer = "" THEN <<>> ELSE <<r.buffer>>), buffer |-> ""]

\* The line decoder behind aiter_lines on one piece of text: the text is added to
\* what is buffered, the complete lines are yielded, the rest stays buffered.
LineDecode(buf, text) == Feed(buf \o text)

\* The decoder's flush at the end of the body: what is buffered is the last line.
Flush(buf) == IF buf = "" THEN <<>> ELSE <<buf>>

\* The loop body over the lines of one piece, from line i on: the state of the
\* loop and how many lines it has taken.
RECURSIVE DecodeSome(_, _, _)
DecodeSome(st, lines, i) ==
    IF i > Len(lines) THEN [st |-> st, taken |-> i - 1]
    ELSE LET next == DecodeLine(st, lines[i]) IN
         IF next.state # "reading" THEN [st |-> next, taken |-> i]
         ELSE DecodeSome(next, lines, i + 1)

\* All the ways of cutting a text into n consecutive pieces (a piece may be empty).
Pieces(text, n) ==
    { [i \in 1..n |-> SubSeq(text, (IF i = 1 THEN 0 ELSE cut[i - 1]) + 1,
                                   IF i = n THEN Len(text) ELSE cut[i])] :
        cut \in { c \in [1..(n - 1) -> 0..Len(text)] :
                    \A i \in 1..(n - 2) : c[i] <= c[i + 1] } }

InitChunks ==
    /\ hostKind = "root"
    /\ \E d \in Deployments :
         /\ tool_servers = d.servers
         /\ responses = Answered(hostKind, d.servers, d.resps)
         /\ tools = DiscoverAll(hostKind, d.servers, d.resps, 1, <<>>)
         /\ server_idx = Len(d.servers) + 1
    /\ available_tools = tools
    /\ ctor = "done"
    /\ use_gemini = FALSE
    /\ NoSessions
    /\ sel_message = "show products"
    /\ sel_outcome = Ok("")
    /\ sel_pc = "done"
    /\ requested = Request("c1", 1, 1)
    /\ \E text \in StreamTexts, n \in 1..MaxChunks : chunks \in Pieces(text, n)
    /\ NoRun
    /\ NoLaunch
    /\ chunk_idx = 1
    /\ buffer = ""
    /\ stream = <<>>
    /\ line_idx = 1
    /\ products_data = JNone
    /\ stream_pc = "reading"
    /\ response_text = NoneResponse

\* A piece of the body arrives: the decoder yields the lines it completes and the
\* loop body runs on each of them, until one ends the loop.
ReadChunk ==
    /\ stream_pc = "reading"
    /\ chunk_idx <= Len(chunks)
    /\ LET d == LineDecode(buffer, chunks[chunk_idx])
           r == DecodeSome([data |-> products_data, state |-> "reading"], d.lines, 1)
       IN
       /\ buffer' = d.buffer
       /\ stream' = stream \o d.lines
       /\ line_idx' = line_idx + r.taken
       /\ products_data' = r.st.data
       /\ stream_pc' = r.st.state
    /\ chunk_idx' = chunk_idx + 1
    /\ UNCHANGED <<hostKind, discVars, available_tools, sessVars, selVars, chunks,
                   response_text, runVars, launchVars>>

\* The body has ended: the decoder is flushed, the loop body runs on the line
\* that was still buffered, and the loop is over.
ChunksEnd ==
    /\ stream_pc = "reading"
    /\ chunk_idx > Len(chunks)
    /\ LET last == Flush(buffer)
           r == DecodeSome([data |-> products_data, state |-> "reading"], last, 1)
       IN
       /\ buffer' = ""
       /\ stream' = stream \o last
       /\ line_idx' = line_idx + r.taken
       /\ products_data' = r.st.data
       /\ stream_pc' = IF r.st.state = "reading" THEN "exhausted" ELSE r.st.state
    /\ UNCHANGED <<hostKind, discVars, available_tools, sessVars, selVars, chunks,
                   chunk_idx, response_text, runVars, launchVars>>

NextChunks == ReadChunk \/ ChunksEnd \/ Return

SpecChunks == InitChunks /\ [][NextChunks]_vars

RECURSIVE Join(_, _)
Join(pieces, n) == IF n = 0 THEN "" ELSE Join(pieces, n - 1) \o pieces[n]

\* The lines of a body that arrives in one piece.
OneChunk(text) == LineDecode("", text).lines \o Flush(LineDecode("", text).buffer)

RunServers ==
    { [kind |-> "product",   tool |-> "get_products",
       api |-> "http://localhost:5087/api/products"],
      [kind |-> "analytics", tool |-> "get_analytics",
       api |-> "http://localhost:5088/api/analytics"],
      [kind |-> "analytics", tool |-> "get_analytics",
       api |-> "http://analytics.internal/api/analytics"] }

\* data.get("name") of the request body; Missing when the key is absent.
RunNames == {"get_products", "get_analytics", "get_weather", Missing}

\* parameters.get("period") of the request body.
RunPeriods == {Missing, "daily", "weekly"}

\* What products() and analytics() return: the JSON value of the API's answer,
\* None when the request, raise_for_status or response.json() raised.
BackendResults ==
    { JNone, JList(<<Product("Soap", Missing)>>), JList(<<>>), JObject(1), JNum(0) }

\* json.dumps of the values an API answers with.
JsonText(v) ==
    IF v.t = "none" THEN "null"
    ELSE IF v.t = "number" THEN ToString(v.n)
    ELSE IF v.t = "list"
    THEN (IF v.n = 0 THEN "[]" ELSE "[{\"product_name\": \"Soap\"}]")
    ELSE "{\"a\": 1}"

\* json.dumps(test_data) of src/analytics-server.
TestDataText(period) ==
    "{\"period\": \"" \o period
    \o "\", \"metrics\": {\"visitors\": 1250, \"page_views\": 3750, "
    \o "\"bounce_rate\": 42.5, \"avg_session_duration\": \"2m 15s\"}, "
    \o "\"top_pages\": [{\"url\": \"/products\", \"views\": 1200}, "
    \o "{\"url\": \"/home\", \"views\": 950}, {\"url\": \"/about\", \"views\": 450}], "
    \o "\"traffic_sources\": {\"direct\": 45, \"search\": 30, \"social\": 15, "
    \o "\"referral\": 10}}"

\* str(tool_name) in the f-string of the unknown-tool error.
NameText(name) == IF name = Missing THEN "None" ELSE name

ResultEvent(text) == "data: {\"result\": " \o text \o "}\n\n"
ErrorEvent(text) == "data: {\"error\": \"" \o text \o "\"}\n\n"
CloseEvent == "event: close\ndata: {}\n\n"

\* The analytics provider answers with its test data while ANALYTICS_API_URL is
\* the default.
UsesTestData(server) ==
    server.kind = "analytics" /\ StartsWith(server.api, "http://localhost:5088")

\* Whether sse_generator awaits the API behind the provider for this request.
CallsBackend(server, name) == name = server.tool /\ ~UsesTestData(server)

\* A faulty RunPayload: an unknown tool is answered with an empty result.
RunPayloadUnknownAsResult(server, name, period, result) ==
    IF name # server.tool THEN ResultEvent("null")
    ELSE IF server.kind = "product"
    THEN (IF result # JNone THEN ResultEvent(JsonText(result))
          ELSE ErrorEvent("Failed to fetch products from API"))
    ELSE IF UsesTestData(server)
    THEN ResultEvent(TestDataText(IF period = Missing THEN "daily" ELSE period))
    ELSE IF Truthy(result) THEN ResultEvent(JsonText(result))
    ELSE ErrorEvent("Failed to fetch analytics from API")

\* The first text sse_generator yields: product server lines 56-68 (`if result is
\* not None`), analytics server lines 62-104 (`if result`).
RunPayload(server, name, period, result) ==
    IF name # server.tool THEN ErrorEvent("Unknown tool: " \o NameText(name))
    ELSE IF server.kind = "product"
    THEN (IF result # JNone THEN ResultEvent(JsonText(result))
          ELSE ErrorEvent("Failed to fetch products from API"))
    ELSE IF UsesTestData(server)
    THEN ResultEvent(TestDataText(IF period = Missing THEN "daily" ELSE period))
    ELSE IF Truthy(result) THEN ResultEvent(JsonText(result))
    ELSE ErrorEvent("Failed to fetch analytics from API")

InitRun ==
    /\ hostKind = "root"
    /\ \E d \in Deployments :
         /\ tool_servers = d.servers
         /\ responses = Answered(hostKind, d.servers, d.resps)
         /\ tools = DiscoverAll(hostKind, d.servers, d.resps, 1, <<>>)
         /\ server_idx = Len(d.servers) + 1
    /\ available_tools = tools
    /\ ctor = "done"
    /\ use_gemini = FALSE
    /\ NoSessions
    /\ NoSelection
    /\ stream = <<>>
    /\ line_idx = 1
    /\ products_data = JNone
    /\ stream_pc = "idle"
    /\ response_text = NoneResponse
    /\ NoChunks
    /\ run_server \in RunServers
    /\ run_name \in RunNames
    /\ run_period \in RunPeriods
    /\ run_result = JNone
    /\ run_pc = "start"
    /\ emitted = <<>>
    /\ NoLaunch

\* `result = await products(PRODUCTS_API_URL)` / `await analytics(...)`.
AwaitBackend ==
    /\ run_pc = "start"
    /\ CallsBackend(run_server, run_name)
    /\ run_result' \in BackendResults
    /\ run_pc' = "called"
    /\ UNCHANGED <<hostKind, discVars, available_tools, sessVars, selVars, stream,
                   line_idx, products_data, stream_pc, response_text, chunkVars, launchVars,
                   run_server, run_name, run_period, emitted>>

\* The generator yields its data event.
YieldData ==
    /\ \/ run_pc = "called"
       \/ run_pc = "start" /\ ~CallsBackend(run_server, run_name)
    /\ emitted' = Append(emitted, RunPayload(run_server, run_name, run_period, run_result))
    /\ run_pc' = "data"
    /\ UNCHANGED <<hostKind, discVars, available_tools, sessVars, selVars, stream,
                   line_idx, products_data, stream_pc, response_text, chunkVars, launchVars,
                   run_server, run_name, run_period, run_result>>

\* The generator yields the close event and returns.
YieldClose ==
    /\ run_pc = "data"
    /\ emitted' = Append(emitted, CloseEvent)
    /\ run_pc' = "done"
    /\ UNCHANGED <<hostKind, discVars, available_tools, sessVars, selVars, stream,
                   line_idx, products_data, stream_pc, response_text, chunkVars, launchVars,
                   run_server, run_name, run_period, run_result>>

NextRun == AwaitBackend \/ YieldData \/ YieldClose

SpecRun == InitRun /\ [][NextRun]_vars

\* An event of an event stream: its type ("message" when no event field names
\* one), its data, and how many fields it has.
NoEvent == [type |-> "message", data |-> "", fields |-> 0]

\* The events of a body, as a reader of text/event-stream sees them: an empty
\* line dispatches the event whose fields came before it.
RECURSIVE EventsFrom(_, _, _)
EventsFrom(lines, i, cur) ==
    IF i > Len(lines) THEN <<>>
    ELSE IF lines[i] = ""
    THEN (IF cur.fields = 0 THEN <<>> ELSE <<cur>>) \o EventsFrom(lines, i + 1, NoEvent)
    ELSE IF StartsWith(lines[i], "event: ")
    THEN EventsFrom(lines, i + 1,
             [cur EXCEPT !.type = SubSeq(lines[i], 8, Len(lines[i])), !.fields = @ + 1])
    ELSE IF StartsWith(lines[i], "data: ")
    THEN EventsFrom(lines, i + 1,
             [cur EXCEPT !.data = Payload(lines[i]), !.fields = @ + 1])
    ELSE EventsFrom(lines, i + 1, cur)

Emitted == EventsFrom(OneChunk(Join(emitted, Len(emitted))), 1, NoEvent)

\* A data event that carries a result or an error, and not both.
IsOutcome(e) ==
    /\ e.type = "message"
    /\ JsonLoads(e.data).ok
    /\ JsonLoads(e.data).has_result # JsonLoads(e.data).has_error

\* C27: whatever the tool name and whatever the API behind the provider did, the
\* stream of /run is one data event with either a result or an error, then one
\* close event, and nothing else; an unknown tool name gives the error.
C27_RunStreamShape ==
    /\ Len(Emitted) <= 2
    /\ Len(Emitted) >= 1 => IsOutcome(Emitted[1])
    /\ Len(Emitted) = 2 => Emitted[2].type = "close"
    /\ run_pc = "done" <=> Len(Emitted) = 2
    /\ run_pc = "done" => ~ENABLED NextRun
    /\ (Len(Emitted) >= 1 /\ run_name # run_server.tool) =>
          JsonLoads(Emitted[1].data).has_error

\* C27's case: the API behind the product server failed; the stream is over.
C27_Witness ==
    /\ run_pc = "done"
    /\ run_server.kind = "product"
    /\ run_name = "get_products"
    /\ run_result = JNone
    /\ JsonLoads(Emitted[1].data).has_error

(***************************************************************************)
(* src/launcher.py. A signal handler runs between two instructions of the  *)
(* main program, wherever that is; the launcher is therefore followed      *)
(* statement by statement through start_process.                           *)
(* launch_pc: "check" (lines 84-91), "begin" c (the `if start_...` of c),  *)
(* "track" c (Popen has returned, line 118 not yet run), "sleep" c,        *)
(* "count" (line 145), "loop" (line 154), "finally", "exited" (comp is     *)
(* then the exit status).                                                  *)
(***************************************************************************)
At(stage, c) == [stage |-> stage, comp |-> c]

\* The position of a component in the fixed order.
OrderOf(c) == CHOOSE i \in 1..Len(Components) : Components[i] = c

\* After component c: the next `if start_...`, or line 145 after the client.
After(c) ==
    IF OrderOf(c) < Len(Components) THEN At("begin", Components[OrderOf(c) + 1])
    ELSE At("count", "")

Range(seq) == { seq[i] : i \in 1..Len(seq) }

\* `for process in processes: if process.poll() is None: process.terminate()`
TerminateTracked ==
    [c \in DOMAIN children |->
        IF c \in Range(processes) /\ children[c] = "running" THEN "terminated"
        ELSE children[c]]

InitLaunch ==
    /\ hostKind = "root"
    /\ tool_servers = <<>>
    /\ server_idx = 1
    /\ tools = <<>>
    /\ responses = <<>>
    /\ ctor = "discovering"
    /\ available_tools = <<>>
    /\ use_gemini = FALSE
    /\ NoSessions
    /\ NoSelection
    /\ stream = <<>>
    /\ line_idx = 1
    /\ products_data = JNone
    /\ stream_pc = "idle"
    /\ response_text = NoneResponse
    /\ NoChunks
    /\ NoRun
    /\ wanted \in (SUBSET Range(Components)) \ {{}}
    /\ scripts \in SUBSET Range(Components)
    /\ launch_pc = At("check", "")
    /\ processes = <<>>
    /\ children = [c \in Range(Components) |-> "none"]
    /\ started = <<>>

LaunchOthers ==
    <<hostKind, discVars, available_tools, sessVars, selVars, stream, line_idx,
      products_data, stream_pc, response_text, chunkVars, runVars>>

\* Lines 84-91: a requested component whose script is missing ends the launcher
\* before anything is started. Then the handlers are registered (105-106).
CheckPaths ==
    /\ launch_pc = At("check", "")
    /\ launch_pc' = IF wanted \subseteq scripts THEN At("begin", Components[1])
                    ELSE At("exited", "1")
    /\ UNCHANGED <<LaunchOthers, wanted, scripts, processes, children, started>>

\* A script file is removed while the launcher runs.
ScriptRemoved(c) ==
    /\ launch_pc.stage \notin {"exited"}
    /\ c \in scripts
    /\ scripts' = scripts \ {c}
    /\ UNCHANGED <<LaunchOthers, wanted, launch_pc, processes, children, started>>

\* `if start_...:` and start_process up to the return of Popen (lines 110-116).
\* Popen can raise (OSError), which leaves the try block through finally.
Begin(c) ==
    /\ launch_pc = At("begin", c)
    /\ IF c \notin wanted
       THEN /\ launch_pc' = After(c)
            /\ UNCHANGED <<children, started>>
       ELSE IF c \notin scripts
       THEN /\ launch_pc' = At("sleep", c)
            /\ UNCHANGED <<children, started>>
       ELSE \/ /\ children' = [children EXCEPT ![c] = "running"]
               /\ started' = Append(started, c)
               /\ launch_pc' = At("track", c)
            \/ /\ launch_pc' = At("finally", "")
               /\ UNCHANGED <<children, started>>
    /\ UNCHANGED <<LaunchOthers, wanted, scripts, processes>>

\* Lines 117-119: processes.append(process).
Track(c) ==
    /\ launch_pc = At("track", c)
    /\ processes' = Append(processes, c)
    /\ launch_pc' = At("sleep", c)
    /\ UNCHANGED <<LaunchOthers, wanted, scripts, children, started>>

\* start_process has returned; time.sleep(2) after the server and after the host
\* (lines 135, 139).
Sleep(c) ==
    /\ launch_pc = At("sleep", c)
    /\ launch_pc' = After(c)
    /\ UNCHANGED <<LaunchOthers, wanted, scripts, processes, children, started>>

\* Lines 145-151: with nothing started, sys.exit(1), which runs finally.
Count ==
    /\ launch_pc = At("count", "")
    /\ launch_pc' = IF processes = <<>> THEN At("finally", "") ELSE At("loop", "")
    /\ UNCHANGED <<LaunchOthers, wanted, scripts, processes, children, started>>

\* A started component ends by itself.
ChildExits(c) ==
    /\ children[c] = "running"
    /\ children' = [children EXCEPT ![c] = "exited"]
    /\ UNCHANGED <<LaunchOthers, wanted, scripts, launch_pc, processes, started>>

\* SIGINT or SIGTERM once the handlers are registered: signal_handler (lines
\* 96-102) terminates what is tracked and calls sys.exit(0); the finally block,
\* when the program is inside the try, finds nothing more to terminate.
Signal ==
    /\ launch_pc.stage \notin {"check", "exited"}
    /\ children' = TerminateTracked
    /\ launch_pc' = At("exited", "0")
    /\ UNCHANGED <<LaunchOthers, wanted, scripts, processes, started>>

\* Lines 168-173, reached by an exception or by sys.exit(1).
Finally ==
    /\ launch_pc = At("finally", "")
    /\ children' = TerminateTracked
    /\ launch_pc' = At("exited", "1")
    /\ UNCHANGED <<LaunchOthers, wanted, scripts, processes, started>>

NextLaunch ==
    \/ CheckPaths
    \/ \E c \in Range(Components) :
          \/ ScriptRemoved(c)
          \/ Begin(c)
          \/ Track(c)
          \/ Sleep(c)
          \/ ChildExits(c)
    \/ Count
    \/ Signal
    \/ Finally

SpecLaunch == InitLaunch /\ [][NextLaunch]_vars

\* C39: components are started in the order server, host, client; outside
\* start_process the tracked processes are exactly the started ones, so a
\* component that was skipped is not tracked; and when the launcher has ended,
\* no process it started is still running without having been sent terminate.
C39_LauncherTracksAndTerminates ==
    /\ \A i, j \in 1..Len(started) : i < j => OrderOf(started[i]) < OrderOf(started[j])
    /\ Range(started) \subseteq wanted
    /\ launch_pc.stage # "track" => processes = started
    /\ launch_pc.stage = "exited" => \A c \in Range(started) : children[c] # "running"

====
